---- MODULE Spec2Model ----
(***************************************************************************)
(* Cortex scan engine: the task-queue driver (HTTP create handler, Redis   *)
(* task store, consumer loops) and the scan orchestrator ExecuteScan with  *)
(* its worker goroutines.                                                  *)
(*                                                                         *)
(* Spec      the API server process: create handler + consumer loops, each  *)
(*           consumer loop running ExecuteScan at goroutine granularity.    *)
(* ScanSpec  the command-line process: cli.Run calling ExecuteScan once.    *)
(* FairScanSpec  ScanSpec with the fairness of the Go scheduler.            *)
(***************************************************************************)
EXTENDS Integers, Sequences, FiniteSets, TLC

(***************************************************************************)
(* Bounds of the model.                                                    *)
(***************************************************************************)
\* number of POST /scans requests the model follows
MaxTasks == 2
\* consumer loops started by StartWorkers (5 in api.Run), scaled down
NumLoops == 2
\* capacity of the job channel (1000 in ExecuteScan), scaled down
JobChanCap == 1
\* workers of a connect scan (100 in selectWorker), scaled down
ConnectWorkerCount == 2
\* workers of a syn or udp scan (50 in selectWorker), scaled down
RawWorkerCount == 1

\* upper end of the port range accepted by the API parser
MaxPort == 65535

TaskIds == 1..MaxTasks
Loops == 1..NumLoops
\* the command-line process is the one caller of ExecuteScan outside the loops
CliCaller == 0
Callers == Loops \cup {CliCaller}
MaxWorkerCount == IF ConnectWorkerCount > RawWorkerCount THEN ConnectWorkerCount ELSE RawWorkerCount
WorkerIds == 1..MaxWorkerCount

Modes == {"connect", "syn", "udp"}

(***************************************************************************)
(* Go strings that the code parses are sequences of one-character strings. *)
(***************************************************************************)
Digits == {"0", "1", "2", "3", "4", "5", "6", "7", "8", "9"}

DigitVal(c) ==
    CASE c = "0" -> 0 [] c = "1" -> 1 [] c = "2" -> 2 [] c = "3" -> 3 [] c = "4" -> 4
      [] c = "5" -> 5 [] c = "6" -> 6 [] c = "7" -> 7 [] c = "8" -> 8 [] c = "9" -> 9

\* strings.Split(s, "-")
RECURSIVE Split(_)
Split(s) ==
    IF \A i \in 1..Len(s) : s[i] # "-"
    THEN <<s>>
    ELSE LET i == CHOOSE k \in 1..Len(s) : s[k] = "-" /\ \A j \in 1..(k - 1) : s[j] # "-"
         IN  <<SubSeq(s, 1, i - 1)>> \o Split(SubSeq(s, i + 1, Len(s)))

RECURSIVE DecimalValue(_)
DecimalValue(ds) ==
    IF ds = <<>> THEN 0
    ELSE DecimalValue(SubSeq(ds, 1, Len(ds) - 1)) * 10 + DigitVal(ds[Len(ds)])

\* strconv.Atoi: an optional sign followed by one or more decimal digits
Atoi(s) ==
    LET signed == Len(s) > 0 /\ s[1] \in {"+", "-"}
        ds == IF signed THEN SubSeq(s, 2, Len(s)) ELSE s
    IN  IF ds = <<>> \/ \E i \in 1..Len(ds) : ds[i] \notin Digits
        THEN [ok |-> FALSE, val |-> 0]
        ELSE [ok |-> TRUE,
              val |-> IF signed /\ s[1] = "-" THEN 0 - DecimalValue(ds) ELSE DecimalValue(ds)]

ErrFormat == "invalid port range format. Use startPort-endPort"
ErrStartNaN == "start port is not a number"
ErrEndNaN == "end port is not a number"
ErrOutOfRange == "ports must be within 0-65535 range"
ErrStartGtEnd == "start port must be less than or equal to end port"

\* cli.parsePortRange: no bounds and no ordering check
cliParsePortRange(portRange) ==
    LET parts == Split(portRange)
    IN  IF Len(parts) # 2 THEN [start |-> 0, end |-> 0, err |-> ErrFormat]
        ELSE IF ~Atoi(parts[1]).ok THEN [start |-> 0, end |-> 0, err |-> ErrStartNaN]
        ELSE IF ~Atoi(parts[2]).ok THEN [start |-> 0, end |-> 0, err |-> ErrEndNaN]
        ELSE [start |-> Atoi(parts[1]).val, end |-> Atoi(parts[2]).val, err |-> ""]

\* variant of parsePortRange: the upper bound is checked against 65536
parsePortRangeWideBound(portRange) ==
    LET parts == Split(portRange)
    IN  IF Len(parts) # 2 THEN [start |-> 0, end |-> 0, err |-> ErrFormat]
        ELSE IF ~Atoi(parts[1]).ok THEN [start |-> 0, end |-> 0, err |-> ErrStartNaN]
        ELSE IF ~Atoi(parts[2]).ok THEN [start |-> 0, end |-> 0, err |-> ErrEndNaN]
        ELSE LET startPort == Atoi(parts[1]).val
                 endPort == Atoi(parts[2]).val
             IN  IF startPort < 0 \/ startPort > MaxPort + 1 \/ endPort < 0
                    \/ endPort > MaxPort + 1
                 THEN [start |-> 0, end |-> 0, err |-> ErrOutOfRange]
                 ELSE IF startPort > endPort
                 THEN [start |-> 0, end |-> 0, err |-> ErrStartGtEnd]
                 ELSE [start |-> startPort, end |-> endPort, err |-> ""]

\* api.parsePortRange
parsePortRange(portRange) ==
    LET parts == Split(portRange)
    IN  IF Len(parts) # 2 THEN [start |-> 0, end |-> 0, err |-> ErrFormat]
        ELSE IF ~Atoi(parts[1]).ok THEN [start |-> 0, end |-> 0, err |-> ErrStartNaN]
        ELSE IF ~Atoi(parts[2]).ok THEN [start |-> 0, end |-> 0, err |-> ErrEndNaN]
        ELSE LET startPort == Atoi(parts[1]).val
                 endPort == Atoi(parts[2]).val
             IN  IF startPort < 0 \/ startPort > MaxPort \/ endPort < 0 \/ endPort > MaxPort
                 THEN [start |-> 0, end |-> 0, err |-> ErrOutOfRange]
                 ELSE IF startPort > endPort
                 THEN [start |-> 0, end |-> 0, err |-> ErrStartGtEnd]
                 ELSE [start |-> startPort, end |-> endPort, err |-> ""]

(***************************************************************************)
(* Workers: one job in, one result out.  What a host answers is the        *)
(* environment's choice, fixed for a run (variable net); the worker code   *)
(* maps the answer to a result.                                            *)
(***************************************************************************)
Hosts == {"a", "b"}

\* how a host treats a probed port
\*   closed    refuses the connection (RST, ICMP port unreachable)
\*   filtered  drops every packet
\*   noroute   the dial fails with another error (unreachable, no route)
\*   http      accepts and answers with an HTTP status line
\*   banner    accepts and answers with bytes no pattern matches
\*   silent    accepts and never answers
\*   reset     accepts and resets the connection at once
Behaviours == {"closed", "filtered", "noroute", "http", "banner", "silent", "reset"}

\* a network gives every host its behaviour on odd and on even ports
Networks ==
    { [h \in Hosts |-> IF h = "a" THEN [odd |-> "closed", even |-> "http"]
                                  ELSE [odd |-> "filtered", even |-> "reset"]],
      [h \in Hosts |-> IF h = "a" THEN [odd |-> "banner", even |-> "noroute"]
                                  ELSE [odd |-> "silent", even |-> "http"]] }

\* how network n treats the port of a job
BehaviourOf(n, job) == IF job.port % 2 = 1 THEN n[job.host].odd ELSE n[job.host].even

\* a Go error value: nil, or what errors.As(net.Error).Timeout(), errors.Is
\* (syscall errno) and Error() (its words) answer for it
NilErr == [nil |-> TRUE, timeout |-> FALSE, errno |-> "", text |-> <<>>]
ErrTimeout == [nil |-> FALSE, timeout |-> TRUE, errno |-> "", text |-> <<"i/o", "timeout">>]
ErrRefused ==
    [nil |-> FALSE, timeout |-> FALSE, errno |-> "ECONNREFUSED",
     text |-> <<"connect:", "connection", "refused">>]
ErrActivelyRefused ==
    [nil |-> FALSE, timeout |-> FALSE, errno |-> "",
     text |-> <<"the", "target", "machine", "actively", "refused", "it">>]
ErrRefusedText ==
    [nil |-> FALSE, timeout |-> FALSE, errno |-> "",
     text |-> <<"proxy:", "connection", "refused">>]
ErrNoRoute ==
    [nil |-> FALSE, timeout |-> FALSE, errno |-> "EHOSTUNREACH",
     text |-> <<"no", "route", "to", "host">>]
ErrNoSuchHost ==
    [nil |-> FALSE, timeout |-> FALSE, errno |-> "", text |-> <<"no", "such", "host">>]
ErrRefusedTimeout ==
    [nil |-> FALSE, timeout |-> TRUE, errno |-> "",
     text |-> <<"connection", "refused", "after", "timeout">>]

\* strings.Contains on the words of a message
Contains(text, sub) ==
    \E i \in 0 .. (Len(text) - Len(sub)) : SubSeq(text, i + 1, i + Len(sub)) = sub

\* isConnectionRefused without the Windows wording
isConnectionRefusedUnixOnly(err) ==
    \/ err.errno = "ECONNREFUSED"
    \/ Contains(err.text, <<"connection", "refused">>)

\* isConnectionRefused
isConnectionRefused(err) ==
    \/ err.errno = "ECONNREFUSED"
    \/ Contains(err.text, <<"connection", "refused">>)
    \/ Contains(err.text, <<"actively", "refused">>)

\* net.DialTimeout("tcp", ...): the error it returns
DialOutcome(behaviour) ==
    CASE behaviour = "closed" -> ErrRefused
      [] behaviour = "filtered" -> ErrTimeout
      [] behaviour = "noroute" -> ErrNoRoute
      [] OTHER -> NilErr

\* the probe catalogue: a probe has a payload and Matches in file order; a
\* Match pattern is given by the set of responses it matches
HttpOk == "HTTP/1.1 200 OK"
TCPProbes ==
    << [protocol |-> "TCP", name |-> "NULL", data |-> <<>>,
        matches |-> << [serviceName |-> "ssh", pattern |-> {"SSH-2.0"}] >>],
       [protocol |-> "TCP", name |-> "GetRequest", data |-> <<"G", "E", "T">>,
        matches |-> << [serviceName |-> "http", pattern |-> {HttpOk}],
                       [serviceName |-> "http-proxy", pattern |-> {HttpOk, "HTTP/1.0 407"}] >>] >>

\* the probes LoadProbes returns, in file order: a UDP probe stands between
\* the two TCP probes
ProbeFile ==
    << TCPProbes[1],
       [protocol |-> "UDP", name |-> "DNSStatusRequest", data |-> <<"0">>, matches |-> <<>>],
       TCPProbes[2] >>

\* NewProbeCache: the probes split by protocol, each list in file order
NewProbeCache(probes) ==
    [allProbes |-> probes,
     tcpProbes |-> SelectSeq(probes, LAMBDA p : p.protocol = "TCP"),
     udpProbes |-> SelectSeq(probes, LAMBDA p : p.protocol = "UDP")]

\* ProbeCache.GetTCPProbes
GetTCPProbes(pc) == pc.tcpProbes

\* what a read on the connection returns: an error, or the bytes read
ReadTimeout == [kind |-> "timeout", data |-> ""]
ReadError == [kind |-> "err", data |-> ""]
ReadData(bytes) == [kind |-> "data", data |-> bytes]

\* how the peer treats a dialed connection: the outcome of the first one-byte
\* read, and for the i-th probe the outcome of its write and of its read
ConnOf(behaviour) ==
    CASE behaviour = "http" ->
           [first |-> ReadTimeout,
            replies |-> << [write |-> "ok", read |-> ReadTimeout],
                           [write |-> "ok", read |-> ReadData(HttpOk)] >>]
      [] behaviour = "banner" ->
           [first |-> ReadTimeout,
            replies |-> << [write |-> "ok", read |-> ReadData("GARBAGE")],
                           [write |-> "ok", read |-> ReadTimeout] >>]
      [] behaviour = "reset" ->
           [first |-> ReadError,
            replies |-> << [write |-> "err", read |-> ReadError],
                           [write |-> "err", read |-> ReadError] >>]
      [] OTHER ->
           [first |-> ReadTimeout,
            replies |-> << [write |-> "ok", read |-> ReadTimeout],
                           [write |-> "ok", read |-> ReadTimeout] >>]

\* service name of the first Match, in file order, whose pattern matches
RECURSIVE FirstMatch(_, _, _)
FirstMatch(matches, k, response) ==
    IF k > Len(matches) THEN [found |-> FALSE, serviceName |-> ""]
    ELSE IF response \in matches[k].pattern
         THEN [found |-> TRUE, serviceName |-> matches[k].serviceName]
         ELSE FirstMatch(matches, k + 1, response)

\* variant of the probe loop: a failed read is taken for a timeout
RECURSIVE ProbeLoopSkipsReadError(_, _, _, _)
ProbeLoopSkipsReadError(conn, probes, i, io) ==
    IF i > Len(probes)
    THEN [serviceName |-> "", rawBanner |-> "", connValid |-> TRUE, io |-> io]
    ELSE LET probe == probes[i]
             reply == conn.replies[i]
             wrote == IF Len(probe.data) > 0 THEN Append(io, <<"write", i>>) ELSE io
             read == Append(wrote, <<"read", i>>)
         IN  IF Len(probe.data) > 0 /\ reply.write = "err"
             THEN [serviceName |-> "", rawBanner |-> "", connValid |-> FALSE, io |-> wrote]
             ELSE IF reply.read.kind \in {"err", "timeout"} \/ reply.read.data = ""
             THEN ProbeLoopSkipsReadError(conn, probes, i + 1, read)
             ELSE [serviceName |-> FirstMatch(probe.matches, 1, reply.read.data).serviceName,
                   rawBanner |-> reply.read.data, connValid |-> TRUE, io |-> read]

\* variant of the probe loop: the first read timeout ends probing
ProbeLoopStopsAtTimeout(conn, probes, i, io) ==
    IF i > Len(probes)
    THEN [serviceName |-> "", rawBanner |-> "", connValid |-> TRUE, io |-> io]
    ELSE LET probe == probes[i]
             reply == conn.replies[i]
             wrote == IF Len(probe.data) > 0 THEN Append(io, <<"write", i>>) ELSE io
             read == Append(wrote, <<"read", i>>)
         IN  IF Len(probe.data) > 0 /\ reply.write = "err"
             THEN [serviceName |-> "", rawBanner |-> "", connValid |-> FALSE, io |-> wrote]
             ELSE IF reply.read.kind = "err"
             THEN [serviceName |-> "", rawBanner |-> "", connValid |-> FALSE, io |-> read]
             ELSE IF reply.read.kind = "timeout" \/ reply.read.data = ""
             THEN [serviceName |-> "", rawBanner |-> "", connValid |-> TRUE, io |-> read]
             ELSE [serviceName |-> FirstMatch(probe.matches, 1, reply.read.data).serviceName,
                   rawBanner |-> reply.read.data, connValid |-> TRUE, io |-> read]

\* the probe loop of probeService from probe i on; io lists the writes and
\* reads done on the connection
RECURSIVE ProbeLoop(_, _, _, _)
ProbeLoop(conn, probes, i, io) ==
    IF i > Len(probes)
    THEN [serviceName |-> "", rawBanner |-> "", connValid |-> TRUE, io |-> io]
    ELSE LET probe == probes[i]
             reply == conn.replies[i]
             wrote == IF Len(probe.data) > 0 THEN Append(io, <<"write", i>>) ELSE io
             read == Append(wrote, <<"read", i>>)
         IN  IF Len(probe.data) > 0 /\ reply.write = "err"
             THEN [serviceName |-> "", rawBanner |-> "", connValid |-> FALSE, io |-> wrote]
             ELSE IF reply.read.kind = "err"
             THEN [serviceName |-> "", rawBanner |-> "", connValid |-> FALSE, io |-> read]
             ELSE IF reply.read.kind = "timeout" \/ reply.read.data = ""
             THEN ProbeLoop(conn, probes, i + 1, read)
             ELSE [serviceName |-> FirstMatch(probe.matches, 1, reply.read.data).serviceName,
                   rawBanner |-> reply.read.data, connValid |-> TRUE, io |-> read]

\* the matching of any probe of the catalogue, in catalogue order
RECURSIVE AnyProbeMatch(_, _, _)
AnyProbeMatch(probes, i, response) ==
    IF i > Len(probes) THEN ""
    ELSE IF FirstMatch(probes[i].matches, 1, response).found
         THEN FirstMatch(probes[i].matches, 1, response).serviceName
         ELSE AnyProbeMatch(probes, i + 1, response)

\* probeService matching a response against the Matches of every probe
probeServiceAnyProbe(conn, probes) ==
    LET r == ProbeLoop(conn, probes, 1, <<<<"read", 0>>>>)
    IN  IF conn.first.kind = "err"
        THEN [serviceName |-> "", rawBanner |-> "", connValid |-> FALSE,
              io |-> <<<<"read", 0>>>>]
        ELSE IF r.rawBanner # ""
             THEN [r EXCEPT !.serviceName = AnyProbeMatch(probes, 1, r.rawBanner)]
             ELSE r

\* probeService: (serviceName, rawBanner, connValid), and the I/O it did
probeService(conn, probes) ==
    IF conn.first.kind = "err"
    THEN [serviceName |-> "", rawBanner |-> "", connValid |-> FALSE,
          io |-> <<<<"read", 0>>>>]
    ELSE ProbeLoop(conn, probes, 1, <<<<"read", 0>>>>)

\* what probeService returns on the dialed connection
ProbeServiceOutcome(behaviour, cache) == probeService(ConnOf(behaviour), GetTCPProbes(cache))

\* TCPConnectWorker reporting a service on a connection found reset
TCPConnectResultLabelsClosed(job, dial, probe) ==
    IF ~dial.nil
    THEN IF dial.timeout
         THEN [host |-> job.host, port |-> job.port, state |-> "Filtered", service |-> ""]
         ELSE IF isConnectionRefused(dial)
         THEN [host |-> job.host, port |-> job.port, state |-> "Closed", service |-> ""]
         ELSE [host |-> job.host, port |-> job.port, state |-> "Filtered", service |-> ""]
    ELSE IF ~probe.connValid
         THEN [host |-> job.host, port |-> job.port, state |-> "Closed", service |-> "tcpwrapped"]
         ELSE [host |-> job.host, port |-> job.port, state |-> "Open",
               service |-> IF probe.serviceName = "" /\ probe.rawBanner # ""
                           THEN probe.rawBanner ELSE probe.serviceName]

\* body of the job loop of TCPConnectWorker
TCPConnectResult(job, dial, probe) ==
    IF ~dial.nil
    THEN IF dial.timeout
         THEN [host |-> job.host, port |-> job.port, state |-> "Filtered", service |-> ""]
         ELSE IF isConnectionRefused(dial)
         THEN [host |-> job.host, port |-> job.port, state |-> "Closed", service |-> ""]
         ELSE [host |-> job.host, port |-> job.port, state |-> "Filtered", service |-> ""]
    ELSE IF ~probe.connValid
         THEN [host |-> job.host, port |-> job.port, state |-> "Closed", service |-> ""]
         ELSE [host |-> job.host, port |-> job.port, state |-> "Open",
               service |-> IF probe.serviceName = "" /\ probe.rawBanner # ""
                           THEN probe.rawBanner ELSE probe.serviceName]

\* the I/O TCPConnectWorker does on the connection of one job
TCPConnectIO(dial, conn, probes) ==
    IF dial.nil THEN probeService(conn, probes).io ELSE <<>>

\* TCPConnectWorker closing the connection only when probing found it valid
TCPConnectResourcesLeakOnReset(dial, probe) ==
    IF ~dial.nil THEN <<>>
    ELSE IF probe.connValid THEN <<"dial", "close">> ELSE <<"dial">>

\* the sockets TCPConnectWorker opens and closes for one job: the dialed
\* connection is closed when probeService has returned
TCPConnectResources(dial, probe) ==
    IF ~dial.nil THEN <<>> ELSE <<"dial", "close">>

\* a packet the capture hands to performSynScan: nil, or its TCP layer flags
NilPacket == [nil |-> TRUE, tcp |-> FALSE, syn |-> FALSE, ack |-> FALSE, rst |-> FALSE]
TcpPacket(syn, ack, rst) == [nil |-> FALSE, tcp |-> TRUE, syn |-> syn, ack |-> ack, rst |-> rst]
OtherPacket == [nil |-> FALSE, tcp |-> FALSE, syn |-> FALSE, ack |-> FALSE, rst |-> FALSE]

\* what one SYN probe meets: the local step that fails ("" for none) and the
\* packets captured before the two-second timer fires
SynExchange(behaviour) ==
    CASE behaviour = "closed" ->
           [localErr |-> "", packets |-> <<TcpPacket(FALSE, TRUE, TRUE)>>]
      [] behaviour \in {"filtered", "noroute"} -> [localErr |-> "", packets |-> <<>>]
      [] OTHER -> [localErr |-> "", packets |-> <<TcpPacket(TRUE, TRUE, FALSE)>>]

\* the receive loop deciding on the first packet alone
SynPacketLoopFirstOnly(packets) ==
    IF packets = <<>> THEN "Filtered"
    ELSE LET p == Head(packets)
         IN  IF p.nil THEN "Filtered"
             ELSE IF p.tcp /\ p.syn /\ p.ack THEN "Open"
             ELSE IF p.tcp /\ p.rst THEN "Closed"
             ELSE "Filtered"

\* the receive loop of performSynScan
RECURSIVE SynPacketLoop(_)
SynPacketLoop(packets) ==
    IF packets = <<>> THEN "Filtered"
    ELSE LET p == Head(packets)
         IN  IF p.nil THEN "Filtered"
             ELSE IF p.tcp /\ p.syn /\ p.ack THEN "Open"
             ELSE IF p.tcp /\ p.rst THEN "Closed"
             ELSE SynPacketLoop(Tail(packets))

\* performSynScan reporting a silent port as UDP does
performSynScanUndecided(x) ==
    IF x.localErr # "" THEN "Filtered"
    ELSE IF x.packets = <<>> THEN "Open|Filtered"
    ELSE SynPacketLoop(x.packets)

\* performSynScan: any local failure is Filtered, else the receive loop decides
performSynScan(x) ==
    IF x.localErr # "" THEN "Filtered" ELSE SynPacketLoop(x.packets)

\* the local steps of performSynScan that come before pcap.OpenLive succeeds
SynStepsBeforeOpen == {"interfaces", "no source address", "lookup", "not ipv4", "pcap open"}

\* the capture handle of one SYN job: once opened, its Close is deferred and
\* runs at every return
SynResources(x) ==
    IF x.localErr \in SynStepsBeforeOpen THEN <<>> ELSE <<"pcap open", "close">>

\* the socket of one UDP job: after a successful dial its Close is deferred
UdpResources(x) ==
    IF ~x.dial.nil THEN <<>> ELSE <<"dial", "close">>

\* what one UDP probe meets: the dial error, the write outcome, the read outcome
UdpExchange(behaviour) ==
    CASE behaviour = "closed" -> [dial |-> NilErr, write |-> "ok", read |-> ReadError]
      [] behaviour \in {"http", "banner"} ->
           [dial |-> NilErr, write |-> "ok", read |-> ReadData("reply")]
      [] OTHER -> [dial |-> NilErr, write |-> "ok", read |-> ReadTimeout]

\* performUdpScan taking a failed write for a closed port
performUdpScanWriteClosed(x) ==
    IF ~x.dial.nil
    THEN IF x.dial.timeout THEN "Open|Filtered" ELSE "Closed"
    ELSE IF x.write = "err" THEN "Closed"
    ELSE IF x.read.kind = "timeout" THEN "Open|Filtered"
    ELSE IF x.read.kind = "err" THEN "Closed"
    ELSE IF x.read.data # "" THEN "Open"
    ELSE "Open|Filtered"

\* performUdpScan
performUdpScan(x) ==
    IF ~x.dial.nil
    THEN IF x.dial.timeout THEN "Open|Filtered" ELSE "Closed"
    ELSE IF x.write = "err" THEN "Open|Filtered"
    ELSE IF x.read.kind = "timeout" THEN "Open|Filtered"
    ELSE IF x.read.kind = "err" THEN "Closed"
    ELSE IF x.read.data # "" THEN "Open"
    ELSE "Open|Filtered"

\* the result a worker function of the given mode sends for a job
WorkerResult(mode, job, behaviour, cache) ==
    IF mode = "syn"
    THEN [host |-> job.host, port |-> job.port,
          state |-> performSynScan(SynExchange(behaviour)), service |-> ""]
    ELSE IF mode = "udp"
    THEN [host |-> job.host, port |-> job.port,
          state |-> performUdpScan(UdpExchange(behaviour)), service |-> ""]
    ELSE TCPConnectResult(job, DialOutcome(behaviour), ProbeServiceOutcome(behaviour, cache))

(***************************************************************************)
(* ExecuteScan.                                                            *)
(***************************************************************************)
\* the ports startPort..endPort of one host, in the inner loop's order
RECURSIVE PortJobs(_, _, _)
PortJobs(host, port, endPort) ==
    IF port > endPort THEN <<>>
    ELSE <<[host |-> host, port |-> port]>> \o PortJobs(host, port + 1, endPort)

\* the jobs the producer goroutine sends, in its order
RECURSIVE ProducerJobs(_, _, _)
ProducerJobs(hosts, startPort, endPort) ==
    IF hosts = <<>> THEN <<>>
    ELSE PortJobs(Head(hosts), startPort, endPort) \o ProducerJobs(Tail(hosts), startPort, endPort)

NoJob == [host |-> "", port |-> 0]
WorkerOff == [pc |-> "none", job |-> NoJob]

IdleScan ==
    [pc |-> "idle", panic |-> "", hosts |-> <<>>, startPort |-> 0, endPort |-> 0,
     mode |-> "", totalJobs |-> 0,
     jobs |-> <<>>, jobsClosed |-> FALSE, sent |-> 0, producer |-> "none",
     workers |-> [w \in WorkerIds |-> WorkerOff],
     results |-> <<>>, resultsClosed |-> FALSE, wg |-> 0, coordinator |-> "none",
     scanResults |-> <<>>]

\* ExecuteScan up to its drain loop: channels made, goroutines started
ExecuteScanStart(hosts, startPort, endPort, mode, workerCount) ==
    LET totalJobs == Len(hosts) * (endPort - startPort + 1)
    IN  IF totalJobs < 0
        THEN [IdleScan EXCEPT !.pc = "panicked", !.panic = "makechan: size out of range",
                              !.hosts = hosts, !.startPort = startPort, !.endPort = endPort,
                              !.mode = mode, !.totalJobs = totalJobs]
        ELSE [IdleScan EXCEPT !.pc = "drain",
                              !.hosts = hosts, !.startPort = startPort, !.endPort = endPort,
                              !.mode = mode, !.totalJobs = totalJobs,
                              !.workers = [w \in WorkerIds |->
                                             IF w <= workerCount
                                             THEN [pc |-> "recv", job |-> NoJob]
                                             ELSE WorkerOff],
                              !.wg = totalJobs,
                              !.producer = "send",
                              !.coordinator = "wait"]

\* the worker run of the worker specification, before it is set up
NoResult == [host |-> "", port |-> 0, state |-> "", service |-> ""]
QuietConn == ConnOf("silent")
WorkerIdle ==
    [pc |-> "off", mode |-> "", job |-> NoJob, dial |-> NilErr, conn |-> QuietConn,
     probes |-> <<>>, syn |-> SynExchange("filtered"), udp |-> UdpExchange("silent"),
     result |-> NoResult, io |-> <<>>, res |-> <<>>]

VARIABLES
    scan,       \* scan[c]: the ExecuteScan call of caller c
    cli,        \* the command-line process: arguments and position in cli.Run
    store,      \* Redis hashes scan:<id>: store[id] is <<>> (no key) or <<hash>>
    queue,      \* Redis list scans:queue, head first
    handlers,   \* handlers[id]: the createScanHandler call that generated id
    loops,      \* loops[l]: consumer loop l (workerLoop)
    modeInit,   \* synInitOnce/synInitErr and udpInitOnce/udpInitErr
    net,        \* how the hosts answer probes during this run
    probeCache, \* the ProbeCache built at start and handed to every ExecuteScan
    wk          \* one worker function handling one job: what it meets, what it sends

serverVars == <<store, queue, handlers, loops, modeInit, net, probeCache, wk>>

Panicked(c) == scan[c].pc = "panicked"

\* producer goroutine: jobs <- ScanJob{...}
Produce(c) ==
    LET s == scan[c]
        all == ProducerJobs(s.hosts, s.startPort, s.endPort)
    IN  /\ s.producer = "send"
        /\ ~Panicked(c)
        /\ s.sent < Len(all)
        /\ Len(s.jobs) < JobChanCap
        /\ scan' = [scan EXCEPT ![c].jobs = Append(s.jobs, all[s.sent + 1]),
                                ![c].sent = s.sent + 1]
        /\ UNCHANGED <<cli, serverVars>>

\* variant of CloseJobs: the producer finishes without closing the job channel
CloseJobsForgotten(c) ==
    LET s == scan[c]
    IN  /\ s.producer = "send"
        /\ ~Panicked(c)
        /\ s.sent = Len(ProducerJobs(s.hosts, s.startPort, s.endPort))
        /\ scan' = [scan EXCEPT ![c].producer = "exit"]
        /\ UNCHANGED <<cli, serverVars>>

\* producer goroutine: close(jobs)
CloseJobs(c) ==
    LET s == scan[c]
    IN  /\ s.producer = "send"
        /\ ~Panicked(c)
        /\ s.sent = Len(ProducerJobs(s.hosts, s.startPort, s.endPort))
        /\ scan' = [scan EXCEPT ![c].jobsClosed = TRUE, ![c].producer = "exit"]
        /\ UNCHANGED <<cli, serverVars>>

\* worker goroutine: for job := range jobs, a job is received
WorkerRecv(c, w) ==
    LET s == scan[c]
    IN  /\ s.workers[w].pc = "recv"
        /\ ~Panicked(c)
        /\ s.jobs # <<>>
        /\ scan' = [scan EXCEPT ![c].jobs = Tail(s.jobs),
                                ![c].workers[w] = [pc |-> "send", job |-> Head(s.jobs)]]
        /\ UNCHANGED <<cli, serverVars>>

\* worker goroutine: the range loop ends on the closed, drained job channel
WorkerExit(c, w) ==
    LET s == scan[c]
    IN  /\ s.workers[w].pc = "recv"
        /\ ~Panicked(c)
        /\ s.jobs = <<>>
        /\ s.jobsClosed
        /\ scan' = [scan EXCEPT ![c].workers[w] = [pc |-> "exit", job |-> NoJob]]
        /\ UNCHANGED <<cli, serverVars>>

\* variant of WorkerSend: a Filtered outcome is dropped instead of sent
WorkerSendDropsFiltered(c, w) ==
    LET s == scan[c]
    IN  /\ s.workers[w].pc = "send"
        /\ ~Panicked(c)
        /\ LET job == s.workers[w].job
               r == WorkerResult(s.mode, job, BehaviourOf(net, job), probeCache)
           IN  IF s.resultsClosed
               THEN scan' = [scan EXCEPT ![c].pc = "panicked",
                                         ![c].panic = "send on closed channel"]
               ELSE /\ Len(s.results) < s.totalJobs
                    /\ scan' = [scan EXCEPT ![c].results =
                                               IF r.state = "Filtered"
                                               THEN s.results
                                               ELSE Append(s.results, r),
                                            ![c].workers[w] = [pc |-> "done", job |-> NoJob]]
        /\ UNCHANGED <<cli, serverVars>>

\* variant of WorkerSend: a connect worker takes the probes it tried off the
\* slice GetTCPProbes returned, which is the slice the cache holds
WorkerSendConsumesProbes(c, w) ==
    LET s == scan[c]
    IN  /\ s.workers[w].pc = "send"
        /\ ~Panicked(c)
        /\ LET job == s.workers[w].job
               r == WorkerResult(s.mode, job, BehaviourOf(net, job), probeCache)
           IN  IF s.resultsClosed
               THEN /\ scan' = [scan EXCEPT ![c].pc = "panicked",
                                            ![c].panic = "send on closed channel"]
                    /\ UNCHANGED probeCache
               ELSE /\ Len(s.results) < s.totalJobs
                    /\ scan' = [scan EXCEPT ![c].results = Append(s.results, r),
                                            ![c].workers[w] = [pc |-> "done", job |-> NoJob]]
                    /\ probeCache' = IF s.mode = "connect" /\ r.service # ""
                                     THEN [probeCache EXCEPT !.tcpProbes = Tail(@)]
                                     ELSE probeCache
        /\ UNCHANGED <<cli, store, queue, handlers, loops, modeInit, net, wk>>

\* worker goroutine: the job is probed and results <- result
WorkerSend(c, w) ==
    LET s == scan[c]
    IN  /\ s.workers[w].pc = "send"
        /\ ~Panicked(c)
        /\ LET job == s.workers[w].job
               r == WorkerResult(s.mode, job, BehaviourOf(net, job), probeCache)
           IN  IF s.resultsClosed
               THEN scan' = [scan EXCEPT ![c].pc = "panicked",
                                         ![c].panic = "send on closed channel"]
               ELSE /\ Len(s.results) < s.totalJobs
                    /\ scan' = [scan EXCEPT ![c].results = Append(s.results, r),
                                            ![c].workers[w] = [pc |-> "done", job |-> NoJob]]
        /\ UNCHANGED <<cli, serverVars>>

\* variant of WorkerDone: the worker goes on without wg.Done()
WorkerDoneForgotten(c, w) ==
    LET s == scan[c]
    IN  /\ s.workers[w].pc = "done"
        /\ ~Panicked(c)
        /\ IF s.wg - 1 < 0
           THEN scan' = [scan EXCEPT ![c].pc = "panicked",
                                     ![c].panic = "sync: negative WaitGroup counter"]
           ELSE scan' = [scan EXCEPT ![c].wg = s.wg,
                                     ![c].workers[w] = [pc |-> "recv", job |-> NoJob]]
        /\ UNCHANGED <<cli, serverVars>>

\* worker goroutine: wg.Done()
WorkerDone(c, w) ==
    LET s == scan[c]
    IN  /\ s.workers[w].pc = "done"
        /\ ~Panicked(c)
        /\ IF s.wg - 1 < 0
           THEN scan' = [scan EXCEPT ![c].pc = "panicked",
                                     ![c].panic = "sync: negative WaitGroup counter"]
           ELSE scan' = [scan EXCEPT ![c].wg = s.wg - 1,
                                     ![c].workers[w] = [pc |-> "recv", job |-> NoJob]]
        /\ UNCHANGED <<cli, serverVars>>

\* variant of CoordinatorClose: results is closed when the producer is done
CoordinatorCloseEarly(c) ==
    LET s == scan[c]
    IN  /\ s.coordinator = "wait"
        /\ ~Panicked(c)
        /\ s.jobsClosed
        /\ IF s.resultsClosed
           THEN scan' = [scan EXCEPT ![c].pc = "panicked",
                                     ![c].panic = "close of closed channel"]
           ELSE scan' = [scan EXCEPT ![c].resultsClosed = TRUE, ![c].coordinator = "exit"]
        /\ UNCHANGED <<cli, serverVars>>

\* coordinator goroutine: wg.Wait() returns, close(results)
CoordinatorClose(c) ==
    LET s == scan[c]
    IN  /\ s.coordinator = "wait"
        /\ ~Panicked(c)
        /\ s.wg = 0
        /\ IF s.resultsClosed
           THEN scan' = [scan EXCEPT ![c].pc = "panicked",
                                     ![c].panic = "close of closed channel"]
           ELSE scan' = [scan EXCEPT ![c].resultsClosed = TRUE, ![c].coordinator = "exit"]
        /\ UNCHANGED <<cli, serverVars>>

\* caller: for result := range results, one result appended
Drain(c) ==
    LET s == scan[c]
    IN  /\ s.pc = "drain"
        /\ s.results # <<>>
        /\ scan' = [scan EXCEPT ![c].results = Tail(s.results),
                                ![c].scanResults = Append(s.scanResults, Head(s.results))]
        /\ UNCHANGED <<cli, serverVars>>

\* variant of ScanReturn: the caller stops at the first empty read of results
ScanReturnEarly(c) ==
    LET s == scan[c]
    IN  /\ s.pc = "drain"
        /\ s.results = <<>>
        /\ scan' = [scan EXCEPT ![c].pc = "returned"]
        /\ UNCHANGED <<cli, serverVars>>

\* caller: the range loop ends on the closed, drained result channel; return
ScanReturn(c) ==
    LET s == scan[c]
    IN  /\ s.pc = "drain"
        /\ s.results = <<>>
        /\ s.resultsClosed
        /\ scan' = [scan EXCEPT ![c].pc = "returned"]
        /\ UNCHANGED <<cli, serverVars>>

ScanStep(c) ==
    \/ Produce(c)
    \/ CloseJobs(c)
    \/ \E w \in WorkerIds : WorkerRecv(c, w)
    \/ \E w \in WorkerIds : WorkerExit(c, w)
    \/ \E w \in WorkerIds : WorkerSend(c, w)
    \/ \E w \in WorkerIds : WorkerDone(c, w)
    \/ CoordinatorClose(c)
    \/ Drain(c)
    \/ ScanReturn(c)

(***************************************************************************)
(* The command-line process (cli.Run).                                     *)
(***************************************************************************)
\* worker count handed to ExecuteScan for a mode (selectWorker and cli.Run agree)
WorkerCountOf(mode) == IF mode = "connect" THEN ConnectWorkerCount ELSE RawWorkerCount

\* command lines the model runs: host arguments, port range argument, -sS, -sU
CliArgs ==
    { [hosts |-> <<"a">>, ports |-> <<"7", "-", "9">>, synScan |-> FALSE, udpScan |-> FALSE],
      [hosts |-> <<"b", "a">>, ports |-> <<"1", "-", "2">>, synScan |-> FALSE, udpScan |-> FALSE],
      [hosts |-> <<"a", "a">>, ports |-> <<"5", "-", "5">>, synScan |-> FALSE, udpScan |-> FALSE],
      [hosts |-> <<"a", "b">>, ports |-> <<"1", "-", "2">>, synScan |-> FALSE, udpScan |-> TRUE],
      [hosts |-> <<"a", "b">>,
       ports |-> <<"6", "5", "5", "3", "5", "-", "6", "5", "5", "3", "6">>,
       synScan |-> TRUE, udpScan |-> FALSE],
      [hosts |-> <<"a">>, ports |-> <<"3", "-", "2">>, synScan |-> FALSE, udpScan |-> FALSE],
      [hosts |-> <<"a", "b">>, ports |-> <<"5", "-", "3">>, synScan |-> FALSE, udpScan |-> FALSE],
      [hosts |-> <<"a">>, ports |-> <<"x", "-", "1">>, synScan |-> FALSE, udpScan |-> TRUE],
      [hosts |-> <<"a">>, ports |-> <<"1", "-">>, synScan |-> TRUE, udpScan |-> FALSE],
      [hosts |-> <<"a">>, ports |-> <<"7">>, synScan |-> FALSE, udpScan |-> FALSE],
      [hosts |-> <<"a">>, ports |-> <<"1", "-", "2">>, synScan |-> TRUE, udpScan |-> TRUE] }

CliOff == [pc |-> "off", hosts |-> <<>>, ports |-> <<>>, synScan |-> FALSE, udpScan |-> FALSE]

\* cli.Run from flag parsing to the call of ExecuteScan
CliRun ==
    /\ cli.pc = "start"
    /\ UNCHANGED serverVars
    /\ IF cli.synScan /\ cli.udpScan
       THEN /\ cli' = [cli EXCEPT !.pc = "done"]
            /\ UNCHANGED scan
       ELSE \E initErr \in {"", "init failed"} :
              LET mode == IF cli.synScan THEN "syn" ELSE IF cli.udpScan THEN "udp" ELSE "connect"
                  range == cliParsePortRange(cli.ports)
              IN  IF mode # "connect" /\ initErr # ""
                  THEN /\ cli' = [cli EXCEPT !.pc = "fatal"]
                       /\ UNCHANGED scan
                  ELSE IF range.err # ""
                  THEN /\ cli' = [cli EXCEPT !.pc = "done"]
                       /\ UNCHANGED scan
                  ELSE /\ cli' = [cli EXCEPT !.pc = "scan"]
                       /\ scan' = [scan EXCEPT ![CliCaller] =
                                     ExecuteScanStart(cli.hosts, range.start, range.end,
                                                      mode, WorkerCountOf(mode))]

\* cli.Run after ExecuteScan returned: the results are printed
CliOutput ==
    /\ cli.pc = "scan"
    /\ scan[CliCaller].pc = "returned"
    /\ cli' = [cli EXCEPT !.pc = "done"]
    /\ UNCHANGED <<scan, serverVars>>

(***************************************************************************)
(* Tasks and the Redis task store.                                         *)
(***************************************************************************)
\* a Go slice: nil, or a (possibly empty) sequence of items
NilSlice == [isNil |-> TRUE, items |-> <<>>]
SliceOf(items) == [isNil |-> FALSE, items |-> items]

\* text of a hash field holding JSON: "" (EmptyText) or a JSON array
EmptyText == [text |-> "empty", items |-> <<>>]
JsonArray(items) == [text |-> "array", items |-> items]

\* time.Time values are "zero" or "now"; a *time.Time is "nil" or "now"
FormatTime(t) == IF t = "zero" THEN "0001-01-01T00:00:00Z" ELSE "ts"
ParseTime(raw) == IF raw = "0001-01-01T00:00:00Z" THEN "zero" ELSE "now"

NoTask ==
    [id |-> 0, status |-> "", hosts |-> <<>>, ports |-> <<>>, mode |-> "",
     results |-> NilSlice, createdAt |-> "zero", completedAt |-> "nil", error |-> ""]

\* bytes read from a peer that are not valid UTF-8 (FF 53 4D 42), and what
\* json.Marshal writes for them: each invalid byte becomes U+FFFD (EF BF BD)
BinaryBanner == "<FF>SMB"
ToValidUTF8(str) == IF str = BinaryBanner THEN "<EFBFBD>SMB" ELSE str

\* json.Marshal of a []string and of a []scanner.ScanResult: every string is
\* written coerced to valid UTF-8
MarshalStrings(strs) == [i \in DOMAIN strs |-> ToValidUTF8(strs[i])]
MarshalResults(rs) ==
    [i \in DOMAIN rs |->
        [host |-> ToValidUTF8(rs[i].host), port |-> rs[i].port,
         state |-> ToValidUTF8(rs[i].state), service |-> ToValidUTF8(rs[i].service)]]

serializeTask(task) ==
    [id |-> task.id,
     status |-> task.status,
     hosts |-> JsonArray(MarshalStrings(task.hosts)),
     ports |-> task.ports,
     mode |-> task.mode,
     results |-> IF ~task.results.isNil
                 THEN JsonArray(MarshalResults(task.results.items))
                 ELSE EmptyText,
     created_at |-> FormatTime(task.createdAt),
     completed_at |-> IF task.completedAt # "nil" THEN FormatTime(task.completedAt) ELSE "",
     error |-> task.error]

deserializeTask(data) ==
    [id |-> data.id,
     status |-> data.status,
     hosts |-> IF data.hosts # EmptyText THEN data.hosts.items ELSE <<>>,
     ports |-> data.ports,
     mode |-> data.mode,
     results |-> IF data.results # EmptyText THEN SliceOf(data.results.items) ELSE NilSlice,
     createdAt |-> IF data.created_at # "" THEN ParseTime(data.created_at) ELSE "zero",
     completedAt |-> IF data.completed_at # "" THEN ParseTime(data.completed_at) ELSE "nil",
     error |-> data.error]

\* HSET key field value ...: the given fields are set, the other fields of
\* the hash stay
HSet(hash, data) ==
    [f \in DOMAIN hash \cup DOMAIN data |-> IF f \in DOMAIN data THEN data[f] ELSE hash[f]]

\* RedisStore.CreateTask / RedisStore.UpdateTask: HSET of the serialized task
HSetTask(st, task) ==
    [st EXCEPT ![task.id] =
        <<HSet(IF st[task.id] = <<>> THEN <<>> ELSE st[task.id][1], serializeTask(task))>>]

\* a store call either succeeds or returns an error and leaves Redis unchanged
StoreOutcomes == {"ok", "error"}

Crashed == \E c \in Callers : Panicked(c)

(***************************************************************************)
(* POST /scans (createScanHandler).                                        *)
(***************************************************************************)
\* request bodies that pass the binding (hosts min=1, ports required, mode oneof)
Requests ==
    { [hosts |-> <<"a">>, ports |-> <<"1", "-", "2">>, mode |-> "connect"],
      [hosts |-> <<"a", "b">>, ports |-> <<"5", "-", "5">>, mode |-> "udp"],
      [hosts |-> <<"a">>, ports |-> <<"8", "-", "8">>, mode |-> "syn"],
      [hosts |-> <<"a">>, ports |-> <<"5", "-", "3">>, mode |-> "connect"],
      [hosts |-> <<"a">>, ports |-> <<"x", "-", "1">>, mode |-> "udp"] }

HandlerIdle == [pc |-> "idle", task |-> NoTask]
HandlerDone == [pc |-> "done", task |-> NoTask]

\* variant of CreateTask: the handler goes on to PushToQueue when the store
\* write has failed
CreateTaskGoesOn(id) ==
    /\ ~Crashed
    /\ handlers[id].pc = "idle"
    /\ \A j \in TaskIds : j < id => handlers[j].pc # "idle"
    /\ \E req \in Requests, out \in StoreOutcomes :
          LET task == [id |-> id, status |-> "pending", hosts |-> req.hosts,
                       ports |-> req.ports, mode |-> req.mode, results |-> NilSlice,
                       createdAt |-> "now", completedAt |-> "nil", error |-> ""]
          IN  /\ handlers' = [handlers EXCEPT ![id] = [pc |-> "push", task |-> task]]
              /\ store' = IF out = "error" THEN store ELSE HSetTask(store, task)
    /\ UNCHANGED <<queue, loops, modeInit, scan, cli, net, probeCache, wk>>

\* createScanHandler up to and including store.CreateTask
CreateTask(id) ==
    /\ ~Crashed
    /\ handlers[id].pc = "idle"
    /\ \A j \in TaskIds : j < id => handlers[j].pc # "idle"
    /\ \E req \in Requests, out \in StoreOutcomes :
          LET task == [id |-> id, status |-> "pending", hosts |-> req.hosts,
                       ports |-> req.ports, mode |-> req.mode, results |-> NilSlice,
                       createdAt |-> "now", completedAt |-> "nil", error |-> ""]
          IN  IF out = "error"
              THEN /\ handlers' = [handlers EXCEPT ![id] = HandlerDone]
                   /\ UNCHANGED store
              ELSE /\ handlers' = [handlers EXCEPT ![id] = [pc |-> "push", task |-> task]]
                   /\ store' = HSetTask(store, task)
    /\ UNCHANGED <<queue, loops, modeInit, scan, cli, net, probeCache, wk>>

\* variant of PushToQueue: the LPUSH that reports an error has been applied
PushToQueueApplied(id) ==
    /\ ~Crashed
    /\ handlers[id].pc = "push"
    /\ \E out \in StoreOutcomes :
          IF out = "error"
          THEN /\ handlers' = [handlers EXCEPT ![id] =
                                 [pc |-> "failupdate",
                                  task |-> [handlers[id].task EXCEPT
                                              !.status = "failed",
                                              !.error = "failed to queue task",
                                              !.completedAt = "now"]]]
               /\ queue' = <<id>> \o queue
          ELSE /\ handlers' = [handlers EXCEPT ![id] = HandlerDone]
               /\ queue' = <<id>> \o queue
    /\ UNCHANGED <<store, loops, modeInit, scan, cli, net, probeCache, wk>>

\* createScanHandler: store.PushToQueue (LPUSH) and, when it fails, the local
\* change of the task to failed
PushToQueue(id) ==
    /\ ~Crashed
    /\ handlers[id].pc = "push"
    /\ \E out \in StoreOutcomes :
          IF out = "error"
          THEN /\ handlers' = [handlers EXCEPT ![id] =
                                 [pc |-> "failupdate",
                                  task |-> [handlers[id].task EXCEPT
                                              !.status = "failed",
                                              !.error = "failed to queue task",
                                              !.completedAt = "now"]]]
               /\ UNCHANGED queue
          ELSE /\ handlers' = [handlers EXCEPT ![id] = HandlerDone]
               /\ queue' = <<id>> \o queue
    /\ UNCHANGED <<store, loops, modeInit, scan, cli, net, probeCache, wk>>

\* createScanHandler: store.UpdateTask of the failed task, error ignored
PushFailedUpdate(id) ==
    /\ ~Crashed
    /\ handlers[id].pc = "failupdate"
    /\ \E out \in StoreOutcomes :
          store' = IF out = "ok" THEN HSetTask(store, handlers[id].task) ELSE store
    /\ handlers' = [handlers EXCEPT ![id] = HandlerDone]
    /\ UNCHANGED <<queue, loops, modeInit, scan, cli, net, probeCache, wk>>

(***************************************************************************)
(* Consumer loops (workerLoop).                                            *)
(***************************************************************************)
\* afterFailedInit remembers which mode inits had already failed when the id was popped
LoopAt(pc) ==
    [pc |-> pc, taskID |-> 0, task |-> NoTask, startPort |-> 0, endPort |-> 0,
     afterFailedInit |-> {}]

SynInitErrors ==
    { "SYN scan requires root/administrator privileges and libpcap",
      "no network devices found for SYN scan" }
UdpInitErrors == { "UDP scan requires network resolution capability" }
InitErrors(mode) == IF mode = "syn" THEN SynInitErrors ELSE UdpInitErrors

\* variant of failTask: the error text is not recorded
failTaskNoError(task, err) ==
    [task EXCEPT !.status = "failed", !.results = NilSlice, !.completedAt = "now"]

\* the task as failTask hands it to store.UpdateTask
failTask(task, err) ==
    [task EXCEPT !.status = "failed", !.error = err, !.results = NilSlice,
                 !.completedAt = "now"]

\* variant of PopFromQueue: the id is read from the list and left on it
PopFromQueuePeeks(l) ==
    /\ ~Crashed
    /\ loops[l].pc = "pop"
    /\ \E out \in StoreOutcomes :
          IF out = "error"
          THEN /\ loops' = [loops EXCEPT ![l] = LoopAt("pop")]
               /\ UNCHANGED queue
          ELSE /\ queue # <<>>
               /\ loops' = [loops EXCEPT ![l] =
                              [LoopAt("get") EXCEPT
                                 !.taskID = queue[Len(queue)],
                                 !.afterFailedInit =
                                    {m \in {"syn", "udp"} : modeInit[m].once = "done"
                                                            /\ modeInit[m].err # ""}]]
               /\ UNCHANGED queue
    /\ UNCHANGED <<store, handlers, modeInit, scan, cli, net, probeCache, wk>>

\* store.PopFromQueue (BRPOP) returns an id; or it returns an error, the loop
\* logs it, sleeps a second and is back at the pop
PopFromQueue(l) ==
    /\ ~Crashed
    /\ loops[l].pc = "pop"
    /\ \E out \in StoreOutcomes :
          IF out = "error"
          THEN /\ loops' = [loops EXCEPT ![l] = LoopAt("pop")]
               /\ UNCHANGED queue
          ELSE /\ queue # <<>>
               /\ loops' = [loops EXCEPT ![l] =
                              [LoopAt("get") EXCEPT
                                 !.taskID = queue[Len(queue)],
                                 !.afterFailedInit =
                                    {m \in {"syn", "udp"} : modeInit[m].once = "done"
                                                            /\ modeInit[m].err # ""}]]
               /\ queue' = SubSeq(queue, 1, Len(queue) - 1)
    /\ UNCHANGED <<store, handlers, modeInit, scan, cli, net, probeCache, wk>>

\* variant of GetTask: a failed read of a stored task marks it failed
GetTaskMarksFailed(l) ==
    /\ ~Crashed
    /\ loops[l].pc = "get"
    /\ \E out \in StoreOutcomes :
          IF store[loops[l].taskID] = <<>>
          THEN /\ loops' = [loops EXCEPT ![l] = LoopAt("pop")]
               /\ UNCHANGED store
          ELSE IF out = "error"
               THEN /\ loops' = [loops EXCEPT ![l] = LoopAt("pop")]
                    /\ store' = HSetTask(store,
                                   failTask(deserializeTask(store[loops[l].taskID][1]),
                                            "task unavailable"))
               ELSE /\ loops' = [loops EXCEPT ![l].pc = "running",
                                      ![l].task = deserializeTask(store[loops[l].taskID][1])]
                    /\ UNCHANGED store
    /\ UNCHANGED <<queue, handlers, modeInit, scan, cli, net, probeCache, wk>>

\* store.GetTask(taskID); any failure continues with the next pop
GetTask(l) ==
    /\ ~Crashed
    /\ loops[l].pc = "get"
    /\ \E out \in StoreOutcomes :
          IF out = "error" \/ store[loops[l].taskID] = <<>>
          THEN loops' = [loops EXCEPT ![l] = LoopAt("pop")]
          ELSE loops' = [loops EXCEPT ![l].pc = "running",
                                      ![l].task = deserializeTask(store[loops[l].taskID][1])]
    /\ UNCHANGED <<store, queue, handlers, modeInit, scan, cli, net, probeCache, wk>>

\* variant of runningTask: the status is left as it was read
runningTaskUnmarked(task) ==
    [task EXCEPT !.error = "", !.results = NilSlice, !.completedAt = "nil"]

\* the task as the loop hands it to store.UpdateTask before scanning
runningTask(task) ==
    [task EXCEPT !.status = "running", !.error = "", !.results = NilSlice,
                 !.completedAt = "nil"]

\* variant of MarkRunning: after a failed UpdateTask the iteration goes on
MarkRunningGoesOn(l) ==
    /\ ~Crashed
    /\ loops[l].pc = "running"
    /\ \E out \in StoreOutcomes :
          IF out = "error"
          THEN /\ loops' = [loops EXCEPT ![l].pc = "parse",
                                         ![l].task = runningTask(loops[l].task)]
               /\ UNCHANGED store
          ELSE /\ loops' = [loops EXCEPT ![l].pc = "parse",
                                         ![l].task = runningTask(loops[l].task)]
               /\ store' = HSetTask(store, runningTask(loops[l].task))
    /\ UNCHANGED <<queue, handlers, modeInit, scan, cli, net, probeCache, wk>>

\* status running is persisted; on a store error the id is dropped
MarkRunning(l) ==
    /\ ~Crashed
    /\ loops[l].pc = "running"
    /\ \E out \in StoreOutcomes :
          IF out = "error"
          THEN /\ loops' = [loops EXCEPT ![l] = LoopAt("pop")]
               /\ UNCHANGED store
          ELSE /\ loops' = [loops EXCEPT ![l].pc = "parse",
                                         ![l].task = runningTask(loops[l].task)]
               /\ store' = HSetTask(store, runningTask(loops[l].task))
    /\ UNCHANGED <<queue, handlers, modeInit, scan, cli, net, probeCache, wk>>

\* the parse error is recorded but the iteration goes on to selectWorker
ParsePortsAfterSelect(l) ==
    /\ ~Crashed
    /\ loops[l].pc = "parse"
    /\ LET range == parsePortRange(loops[l].task.ports)
       IN  IF range.err # ""
           THEN /\ \E out \in StoreOutcomes :
                      store' = IF out = "ok"
                               THEN HSetTask(store, failTask(loops[l].task, range.err))
                               ELSE store
                /\ loops' = [loops EXCEPT ![l].pc = "select"]
           ELSE /\ loops' = [loops EXCEPT ![l].pc = "select",
                                          ![l].startPort = range.start,
                                          ![l].endPort = range.end]
                /\ UNCHANGED store
    /\ UNCHANGED <<queue, handlers, modeInit, scan, cli, net, probeCache, wk>>

\* parsePortRange(task.Ports); on an error failTask and continue
ParsePorts(l) ==
    /\ ~Crashed
    /\ loops[l].pc = "parse"
    /\ LET range == parsePortRange(loops[l].task.ports)
       IN  IF range.err # ""
           THEN /\ \E out \in StoreOutcomes :
                      store' = IF out = "ok"
                               THEN HSetTask(store, failTask(loops[l].task, range.err))
                               ELSE store
                /\ loops' = [loops EXCEPT ![l] = LoopAt("pop")]
           ELSE /\ loops' = [loops EXCEPT ![l].pc = "select",
                                          ![l].startPort = range.start,
                                          ![l].endPort = range.end]
                /\ UNCHANGED store
    /\ UNCHANGED <<queue, handlers, modeInit, scan, cli, net, probeCache, wk>>

\* the worker function selectWorker returns for a mode
workerOf(mode) == IF mode \in {"syn", "udp"} THEN mode ELSE "connect"

\* selectWorker calling the init hook without the once-guard
SelectWorkerUnguarded(l) ==
    LET mode == workerOf(loops[l].task.mode)
        scanning == /\ loops' = [loops EXCEPT ![l].pc = "scan"]
                    /\ scan' = [scan EXCEPT ![l] =
                                  ExecuteScanStart(loops[l].task.hosts, loops[l].startPort,
                                                   loops[l].endPort, mode, WorkerCountOf(mode))]
                    /\ UNCHANGED <<store, modeInit>>
    IN  /\ ~Crashed
        /\ loops[l].pc = "select"
        /\ IF mode = "connect"
           THEN scanning
           ELSE IF modeInit[mode].once \in {"fresh", "running"}
           THEN /\ modeInit' = [modeInit EXCEPT ![mode].once = "running"]
                /\ loops' = [loops EXCEPT ![l].pc = "init"]
                /\ UNCHANGED <<store, scan>>
           ELSE /\ modeInit[mode].once = "done"
                /\ IF modeInit[mode].err # ""
                   THEN /\ \E out \in StoreOutcomes :
                              store' = IF out = "ok"
                                       THEN HSetTask(store, failTask(loops[l].task, modeInit[mode].err))
                                       ELSE store
                        /\ loops' = [loops EXCEPT ![l] = LoopAt("pop")]
                        /\ UNCHANGED <<modeInit, scan>>
                   ELSE scanning
        /\ UNCHANGED <<queue, handlers, cli, net, probeCache, wk>>

\* selectWorker returning the worker although the memoized init failed
SelectWorkerIgnoresInitErr(l) ==
    LET mode == workerOf(loops[l].task.mode)
        scanning == /\ loops' = [loops EXCEPT ![l].pc = "scan"]
                    /\ scan' = [scan EXCEPT ![l] =
                                  ExecuteScanStart(loops[l].task.hosts, loops[l].startPort,
                                                   loops[l].endPort, mode, WorkerCountOf(mode))]
                    /\ UNCHANGED <<store, modeInit>>
    IN  /\ ~Crashed
        /\ loops[l].pc = "select"
        /\ IF mode = "connect"
           THEN scanning
           ELSE IF modeInit[mode].once = "fresh"
           THEN /\ modeInit' = [modeInit EXCEPT ![mode].once = "running"]
                /\ loops' = [loops EXCEPT ![l].pc = "init"]
                /\ UNCHANGED <<store, scan>>
           ELSE /\ modeInit[mode].once = "done"
                /\ IF FALSE
                   THEN /\ \E out \in StoreOutcomes :
                              store' = IF out = "ok"
                                       THEN HSetTask(store, failTask(loops[l].task, modeInit[mode].err))
                                       ELSE store
                        /\ loops' = [loops EXCEPT ![l] = LoopAt("pop")]
                        /\ UNCHANGED <<modeInit, scan>>
                   ELSE scanning
        /\ UNCHANGED <<queue, handlers, cli, net, probeCache, wk>>

\* selectWorker(task.Mode) and, when it returns a worker, the call of ExecuteScan
SelectWorker(l) ==
    LET mode == workerOf(loops[l].task.mode)
        scanning == /\ loops' = [loops EXCEPT ![l].pc = "scan"]
                    /\ scan' = [scan EXCEPT ![l] =
                                  ExecuteScanStart(loops[l].task.hosts, loops[l].startPort,
                                                   loops[l].endPort, mode, WorkerCountOf(mode))]
                    /\ UNCHANGED <<store, modeInit>>
    IN  /\ ~Crashed
        /\ loops[l].pc = "select"
        /\ IF mode = "connect"
           THEN scanning
           ELSE IF modeInit[mode].once = "fresh"
           THEN /\ modeInit' = [modeInit EXCEPT ![mode].once = "running"]
                /\ loops' = [loops EXCEPT ![l].pc = "init"]
                /\ UNCHANGED <<store, scan>>
           ELSE /\ modeInit[mode].once = "done"
                /\ IF modeInit[mode].err # ""
                   THEN /\ \E out \in StoreOutcomes :
                              store' = IF out = "ok"
                                       THEN HSetTask(store, failTask(loops[l].task, modeInit[mode].err))
                                       ELSE store
                        /\ loops' = [loops EXCEPT ![l] = LoopAt("pop")]
                        /\ UNCHANGED <<modeInit, scan>>
                   ELSE scanning
        /\ UNCHANGED <<queue, handlers, cli, net, probeCache, wk>>

\* the function passed to synInitOnce.Do / udpInitOnce.Do returns
RunModeInit(l) ==
    /\ ~Crashed
    /\ loops[l].pc = "init"
    /\ \E e \in InitErrors(workerOf(loops[l].task.mode)) \cup {""} :
          modeInit' = [modeInit EXCEPT ![workerOf(loops[l].task.mode)] =
                         [once |-> "done", err |-> e]]
    /\ loops' = [loops EXCEPT ![l].pc = "select"]
    /\ UNCHANGED <<store, queue, handlers, scan, cli, net, probeCache, wk>>

\* variant of completedTask: the completion time is not set
completedTaskNoTime(task, results) ==
    [task EXCEPT !.status = "completed", !.results = SliceOf(results)]

\* the task as the loop hands it to store.UpdateTask after ExecuteScan returned
completedTask(task, results) ==
    [task EXCEPT !.status = "completed", !.results = SliceOf(results),
                 !.completedAt = "now"]

\* variant of Complete: the loop goroutine returns after its first scan
CompleteThenReturn(l) ==
    /\ ~Crashed
    /\ loops[l].pc = "scan"
    /\ scan[l].pc = "returned"
    /\ \E out \in StoreOutcomes :
          store' = IF out = "ok"
                   THEN HSetTask(store, completedTask(loops[l].task, scan[l].scanResults))
                   ELSE store
    /\ loops' = [loops EXCEPT ![l] = LoopAt("exit")]
    /\ scan' = [scan EXCEPT ![l] = IdleScan]
    /\ UNCHANGED <<queue, handlers, modeInit, cli, net, probeCache, wk>>

\* ExecuteScan returned: status completed is persisted
Complete(l) ==
    /\ ~Crashed
    /\ loops[l].pc = "scan"
    /\ scan[l].pc = "returned"
    /\ \E out \in StoreOutcomes :
          store' = IF out = "ok"
                   THEN HSetTask(store, completedTask(loops[l].task, scan[l].scanResults))
                   ELSE store
    /\ loops' = [loops EXCEPT ![l] = LoopAt("pop")]
    /\ scan' = [scan EXCEPT ![l] = IdleScan]
    /\ UNCHANGED <<queue, handlers, modeInit, cli, net, probeCache, wk>>

vars == <<scan, cli, store, queue, handlers, loops, modeInit, net, probeCache, wk>>

FreshInit == [once |-> "fresh", err |-> ""]

Init ==
    /\ scan = [c \in Callers |-> IdleScan]
    /\ cli = CliOff
    /\ store = [id \in TaskIds |-> <<>>]
    /\ queue = <<>>
    /\ handlers = [id \in TaskIds |-> HandlerIdle]
    /\ loops = [l \in Loops |-> LoopAt("pop")]
    /\ modeInit = [m \in {"syn", "udp"} |-> FreshInit]
    /\ net \in Networks
    /\ probeCache = NewProbeCache(ProbeFile)
    /\ wk = WorkerIdle

Next ==
    \/ \E id \in TaskIds : CreateTask(id)
    \/ \E id \in TaskIds : PushToQueue(id)
    \/ \E id \in TaskIds : PushFailedUpdate(id)
    \/ \E l \in Loops : PopFromQueue(l)
    \/ \E l \in Loops : GetTask(l)
    \/ \E l \in Loops : MarkRunning(l)
    \/ \E l \in Loops : ParsePorts(l)
    \/ \E l \in Loops : SelectWorker(l)
    \/ \E l \in Loops : RunModeInit(l)
    \/ \E l \in Loops : ScanStep(l)
    \/ \E l \in Loops : Complete(l)

Spec == Init /\ [][Next]_vars

\* the steps of consumer loop l and of the scan it runs
LoopNext(l) ==
    \/ PopFromQueue(l)
    \/ GetTask(l)
    \/ MarkRunning(l)
    \/ ParsePorts(l)
    \/ SelectWorker(l)
    \/ RunModeInit(l)
    \/ ScanStep(l)
    \/ Complete(l)

\* tasks the server holds once its create handlers have returned: at most
\* one of them scans more than one job
QueuedRequests ==
    { [hosts |-> <<"a">>, ports |-> <<"1", "-", "2">>, mode |-> "connect"],
      [hosts |-> <<"a">>, ports |-> <<"8", "-", "8">>, mode |-> "syn"],
      [hosts |-> <<"a">>, ports |-> <<"x", "-", "1">>, mode |-> "syn"] }

\* the network the queued tasks are scanned against: host a refuses on odd
\* ports and serves HTTP on even ones
QueuedNetwork == CHOOSE n \in Networks : n["a"].odd = "closed"

\* the server after MaxTasks create requests were answered: every task is
\* stored pending and its id is queued, oldest at the tail
QueuedInit ==
    /\ scan = [c \in Callers |-> IdleScan]
    /\ cli = CliOff
    /\ \E reqs \in {r \in [TaskIds -> QueuedRequests] :
                      \A id \in TaskIds \ {1} : r[id].mode # "connect"} :
          store = [id \in TaskIds |->
                     <<serializeTask([id |-> id, status |-> "pending",
                                      hosts |-> reqs[id].hosts, ports |-> reqs[id].ports,
                                      mode |-> reqs[id].mode, results |-> NilSlice,
                                      createdAt |-> "now", completedAt |-> "nil",
                                      error |-> ""])>>]
    /\ queue = [i \in 1..MaxTasks |-> MaxTasks + 1 - i]
    /\ handlers = [id \in TaskIds |-> HandlerDone]
    /\ loops = [l \in Loops |-> LoopAt("pop")]
    /\ modeInit = [m \in {"syn", "udp"} |-> FreshInit]
    /\ net = QueuedNetwork
    /\ probeCache = NewProbeCache(ProbeFile)
    /\ wk = WorkerIdle

QueuedNext == \E l \in Loops : LoopNext(l)

\* the consumer loops under the Go scheduler: while some goroutine can take a
\* step, one does
FairLoopSpec == QueuedInit /\ [][QueuedNext]_vars /\ WF_vars(QueuedNext)

\* the command-line process: no server goroutine exists
ScanInit ==
    /\ scan = [c \in Callers |-> IdleScan]
    /\ \E a \in CliArgs :
          cli = [pc |-> "start", hosts |-> a.hosts, ports |-> a.ports,
                 synScan |-> a.synScan, udpScan |-> a.udpScan]
    /\ store = [id \in TaskIds |-> <<>>]
    /\ queue = <<>>
    /\ handlers = [id \in TaskIds |-> [pc |-> "off", task |-> NoTask]]
    /\ loops = [l \in Loops |-> LoopAt("off")]
    /\ modeInit = [m \in {"syn", "udp"} |-> FreshInit]
    /\ net \in Networks
    /\ probeCache = NewProbeCache(ProbeFile)
    /\ wk = WorkerIdle

ScanNext ==
    \/ CliRun
    \/ CliOutput
    \/ ScanStep(CliCaller)

ScanSpec == ScanInit /\ [][ScanNext]_vars

\* the Go scheduler runs some runnable goroutine
FairScanSpec == ScanSpec /\ WF_vars(ScanNext)

(***************************************************************************)
(* One worker function on one job, against every peer the model knows.     *)
(***************************************************************************)
DialErrors ==
    {ErrTimeout, ErrRefused, ErrActivelyRefused, ErrRefusedText, ErrNoRoute, ErrNoSuchHost,
     ErrRefusedTimeout}
Responses == {HttpOk, "SSH-2.0", "GARBAGE"}
ReadOutcomes == {ReadTimeout, ReadError, ReadData("")} \cup {ReadData(r) : r \in Responses}
ProbeReplies == [write : {"ok", "err"}, read : ReadOutcomes]
Conns == [first : {ReadTimeout, ReadError, ReadData("S")},
          replies : [1..2 -> ProbeReplies]]
\* a banner the peer sends unasked, with its first byte and what follows it
Banners ==
    { [full |-> "SSH-2.0", head |-> "S", tail |-> "SH-2.0"],
      [full |-> "GARBAGE", head |-> "G", tail |-> "ARBAGE"] }
\* the reads on a connection whose peer sends a banner after accept: when it
\* arrives within the 100 ms of the one-byte read, that read takes its first
\* byte and the next read the bytes after it; else the one-byte read times
\* out and the next read takes the whole banner
BannerConn(b, early) ==
    [first |-> IF early THEN ReadData(b.head) ELSE ReadTimeout,
     replies |-> << [write |-> "ok", read |-> ReadData(IF early THEN b.tail ELSE b.full)],
                    [write |-> "ok", read |-> ReadTimeout] >>]
\* catalogues: the default one; one whose first probe has a Match for what the
\* second probe is answered; one of a single payload probe; an empty one
Catalogues ==
    { TCPProbes,
      << [name |-> "NULL", data |-> <<>>,
          matches |-> << [serviceName |-> "early", pattern |-> {HttpOk, "GARBAGE"}] >>],
         [name |-> "GenericLines", data |-> <<"\r", "\n">>,
          matches |-> << [serviceName |-> "ssh", pattern |-> {"SSH-2.0"}] >>] >>,
      << [name |-> "GetRequest", data |-> <<"G", "E", "T">>,
          matches |-> << [serviceName |-> "http-proxy", pattern |-> {HttpOk, "HTTP/1.0 407"}],
                         [serviceName |-> "http", pattern |-> {HttpOk}] >>] >>,
      <<>> }
SynLocalErrors ==
    {"interfaces", "no source address", "lookup", "not ipv4", "pcap open", "bpf filter",
     "serialize", "write packet"}
SynPackets ==
    {NilPacket, OtherPacket, TcpPacket(TRUE, TRUE, FALSE), TcpPacket(FALSE, TRUE, TRUE),
     TcpPacket(TRUE, FALSE, FALSE), TcpPacket(TRUE, TRUE, TRUE)}
\* a nil packet is the closed capture channel: no packet follows it
SynExchanges ==
    {[localErr |-> e, packets |-> <<>>] : e \in SynLocalErrors}
    \cup {[localErr |-> "", packets |-> ps] :
             ps \in {<<>>} \cup {<<p>> : p \in SynPackets}
                    \cup {<<p, q>> : p \in SynPackets \ {NilPacket}, q \in SynPackets}}
UdpExchanges ==
    [dial : {NilErr, ErrTimeout, ErrRefused, ErrNoRoute}, write : {"ok", "err"},
     read : {ReadTimeout, ReadError, ReadData(""), ReadData("reply")}]
WorkerJob == [host |-> "a", port |-> 80]

WorkerInit ==
    /\ scan = [c \in Callers |-> IdleScan]
    /\ cli = CliOff
    /\ store = [id \in TaskIds |-> <<>>]
    /\ queue = <<>>
    /\ handlers = [id \in TaskIds |-> [pc |-> "off", task |-> NoTask]]
    /\ loops = [l \in Loops |-> LoopAt("off")]
    /\ modeInit = [m \in {"syn", "udp"} |-> FreshInit]
    /\ net \in Networks
    /\ probeCache = NewProbeCache(ProbeFile)
    /\ \/ \E d \in DialErrors :
             wk = [WorkerIdle EXCEPT !.pc = "ready", !.mode = "connect", !.job = WorkerJob,
                                     !.dial = d, !.probes = TCPProbes]
       \/ \E c \in Conns, cat \in Catalogues :
             /\ Len(cat) <= 2
             /\ wk = [WorkerIdle EXCEPT !.pc = "ready", !.mode = "connect", !.job = WorkerJob,
                                        !.conn = c, !.probes = cat]
       \/ \E b \in Banners, early \in BOOLEAN, cat \in Catalogues :
             /\ Len(cat) <= 2
             /\ wk = [WorkerIdle EXCEPT !.pc = "ready", !.mode = "connect", !.job = WorkerJob,
                                        !.conn = BannerConn(b, early), !.probes = cat]
       \/ \E x \in SynExchanges :
             wk = [WorkerIdle EXCEPT !.pc = "ready", !.mode = "syn", !.job = WorkerJob,
                                     !.syn = x]
       \/ \E x \in UdpExchanges :
             wk = [WorkerIdle EXCEPT !.pc = "ready", !.mode = "udp", !.job = WorkerJob,
                                     !.udp = x]

\* TCPConnectWorker: one iteration of its job loop
TCPConnectWorker ==
    /\ wk.pc = "ready"
    /\ wk.mode = "connect"
    /\ wk' = [wk EXCEPT !.pc = "done",
                        !.result = TCPConnectResult(wk.job, wk.dial,
                                                    probeService(wk.conn, wk.probes)),
                        !.io = TCPConnectIO(wk.dial, wk.conn, wk.probes),
                        !.res = TCPConnectResources(wk.dial,
                                                    probeService(wk.conn, wk.probes))]
    /\ UNCHANGED <<scan, cli, store, queue, handlers, loops, modeInit, net, probeCache>>

\* TCPSynWorker: one iteration of its job loop
TCPSynWorker ==
    /\ wk.pc = "ready"
    /\ wk.mode = "syn"
    /\ wk' = [wk EXCEPT !.pc = "done",
                        !.result = [host |-> wk.job.host, port |-> wk.job.port,
                                    state |-> performSynScan(wk.syn), service |-> ""],
                        !.res = SynResources(wk.syn)]
    /\ UNCHANGED <<scan, cli, store, queue, handlers, loops, modeInit, net, probeCache>>

\* UDPWorker: one iteration of its job loop
UDPWorker ==
    /\ wk.pc = "ready"
    /\ wk.mode = "udp"
    /\ wk' = [wk EXCEPT !.pc = "done",
                        !.result = [host |-> wk.job.host, port |-> wk.job.port,
                                    state |-> performUdpScan(wk.udp), service |-> ""],
                        !.res = UdpResources(wk.udp)]
    /\ UNCHANGED <<scan, cli, store, queue, handlers, loops, modeInit, net, probeCache>>

WorkerNext == TCPConnectWorker \/ TCPSynWorker \/ UDPWorker

WorkerSpec == WorkerInit /\ [][WorkerNext]_vars

(***************************************************************************)
(* parsePortRange alone: a consumer loop has marked a task running and     *)
(* parses its port expression.                                             *)
(***************************************************************************)
\* what stands on one side of the '-'
PortSides ==
    { <<>>, <<"0">>, <<"7">>, <<"0", "7">>, <<"+", "7">>, <<"x">>, <<"7", "x">>, <<" ", "7">>,
      <<"6", "5", "5", "3", "5">>, <<"6", "5", "5", "3", "6">> }

\* port expressions: one side alone, two sides, three sides
PortInputs ==
    PortSides
    \cup {a \o <<"-">> \o b : a \in PortSides, b \in PortSides}
    \cup {a \o <<"-">> \o a \o <<"-">> \o b : a \in {<<>>, <<"7">>}, b \in {<<>>, <<"7">>}}

ParseInit ==
    /\ scan = [c \in Callers |-> IdleScan]
    /\ cli = CliOff
    /\ \E ports \in PortInputs :
          LET task == [id |-> 1, status |-> "running", hosts |-> <<"a">>, ports |-> ports,
                       mode |-> "connect", results |-> NilSlice, createdAt |-> "now",
                       completedAt |-> "nil", error |-> ""]
          IN  /\ store = [id \in TaskIds |-> IF id = 1 THEN <<serializeTask(task)>> ELSE <<>>]
              /\ loops = [l \in Loops |->
                             IF l = 1 THEN [LoopAt("parse") EXCEPT !.taskID = 1, !.task = task]
                             ELSE LoopAt("off")]
    /\ queue = <<>>
    /\ handlers = [id \in TaskIds |-> HandlerDone]
    /\ modeInit = [m \in {"syn", "udp"} |-> FreshInit]
    /\ net \in Networks
    /\ probeCache = NewProbeCache(ProbeFile)
    /\ wk = WorkerIdle

ParseNext == \E l \in Loops : ParsePorts(l)

ParseSpec == ParseInit /\ [][ParseNext]_vars

(***************************************************************************)
(* The task store alone: a caller hands a task to UpdateTask over whatever *)
(* the key holds, then reads the key with GetTask.                         *)
(***************************************************************************)
\* results a completed connect scan of one port can hold: the service is
\* empty, a service name, or the raw bytes of the banner
StoredResults ==
    { SliceOf(<<>>) }
    \cup { SliceOf(<<[host |-> "a", port |-> 80, state |-> "Open", service |-> sv]>>) :
              sv \in {"", "http", "GARBAGE", BinaryBanner} }
    \cup { SliceOf(<<[host |-> "a", port |-> 80, state |-> "Closed", service |-> ""],
                    [host |-> "a", port |-> 81, state |-> "Filtered", service |-> ""]>>) }

\* tasks as createScanHandler and workerLoop build them
WellFormedTasks(id) ==
    LET base == [id |-> id, status |-> "pending", hosts |-> <<"a">>,
                 ports |-> <<"8", "0", "-", "8", "1">>, mode |-> "connect",
                 results |-> NilSlice, createdAt |-> "now", completedAt |-> "nil",
                 error |-> ""]
    IN  {base, runningTask(base)}
        \cup {completedTask(base, r.items) : r \in StoredResults}
        \cup {failTask(base, e) : e \in {ErrFormat, "failed to queue task"}}

StoreClient(pc, task) == [pc |-> pc, task |-> task, got |-> NoTask]

StoreInit ==
    /\ scan = [c \in Callers |-> IdleScan]
    /\ cli = CliOff
    /\ \E old \in {NoTask} \cup WellFormedTasks(1) :
          store = [id \in TaskIds |->
                     IF id = 1 /\ old # NoTask THEN <<serializeTask(old)>> ELSE <<>>]
    /\ queue = <<>>
    /\ \E t \in WellFormedTasks(1) :
          handlers = [id \in TaskIds |->
                        IF id = 1 THEN StoreClient("update", t) ELSE StoreClient("off", NoTask)]
    /\ loops = [l \in Loops |-> LoopAt("off")]
    /\ modeInit = [m \in {"syn", "udp"} |-> FreshInit]
    /\ net \in Networks
    /\ probeCache = NewProbeCache(ProbeFile)
    /\ wk = WorkerIdle

\* RedisStore.UpdateTask(task)
UpdateTask(id) ==
    /\ handlers[id].pc = "update"
    /\ \E out \in StoreOutcomes :
          IF out = "error"
          THEN /\ handlers' = [handlers EXCEPT ![id].pc = "failed"]
               /\ UNCHANGED store
          ELSE /\ handlers' = [handlers EXCEPT ![id].pc = "get"]
               /\ store' = HSetTask(store, handlers[id].task)
    /\ UNCHANGED <<queue, loops, modeInit, scan, cli, net, probeCache, wk>>

\* RedisStore.GetTask(id)
StoreGetTask(id) ==
    /\ handlers[id].pc = "get"
    /\ \E out \in StoreOutcomes :
          IF out = "error" \/ store[id] = <<>>
          THEN handlers' = [handlers EXCEPT ![id].pc = "failed"]
          ELSE handlers' = [handlers EXCEPT ![id].pc = "got",
                                            ![id].got = deserializeTask(store[id][1])]
    /\ UNCHANGED <<store, queue, loops, modeInit, scan, cli, net, probeCache, wk>>

StoreNext == \E id \in TaskIds : UpdateTask(id) \/ StoreGetTask(id)

StoreSpec == StoreInit /\ [][StoreNext]_vars

(***************************************************************************)
(* performSynScan step by step: interface choice, net.LookupIP, the source *)
(* port drawn with rand.Intn, the capture filter, the receive loop.        *)
(***************************************************************************)
\* an address net.LookupIP returns: To4() is nil for an IPv6 address
IPv4(addr) == [addr |-> addr, v4 |-> TRUE]
IPv6(addr) == [addr |-> addr, v4 |-> FALSE]
NoIP == [addr |-> "", v4 |-> FALSE]
To4(ip) == IF ip.v4 THEN ip ELSE NoIP
SynSrcIP == IPv4("10.0.0.5")
LookupAddrs == {IPv4("192.0.2.1"), IPv4("192.0.2.2"), IPv6("2001:db8::1")}

\* results of net.LookupIP: an error with no address, or at least one address
SynLookups ==
    {[err |-> "no such host", ips |-> <<>>]}
    \cup {[err |-> "", ips |-> <<a>>] : a \in LookupAddrs}
    \cup {[err |-> "", ips |-> <<a, b>>] : a \in LookupAddrs, b \in LookupAddrs}

\* rand.Intn(n) returns a value of [0, n)
RandIntn(n) == 0..(n - 1)
\* the draws followed: the smallest ones and the largest one
SynRandDraws == {r \in RandIntn(65535 - 1024) : r <= 1 \/ r = 65535 - 1024 - 1}
\* uint16(rand.Intn(65535-1024) + 1024)
SynSrcPort(r) == (r + 1024) % 65536
\* every value srcPort can take
SynSourcePorts == {SynSrcPort(r) : r \in RandIntn(65535 - 1024)}

\* what one run of performSynScan meets: the failure of the interface choice,
\* the lookup result, the draw of rand.Intn, the failure of a later local step
\* and the packets captured
SynEnvs ==
    [early : {"", "interfaces", "no source address"},
     lookup : SynLookups,
     rnd : SynRandDraws,
     late : {"", "pcap open", "bpf filter", "serialize", "write packet"},
     packets : {<<>>, <<TcpPacket(TRUE, TRUE, FALSE)>>, <<TcpPacket(FALSE, TRUE, TRUE)>>}]

\* dstIP := dstIPs[0].To4()
SynDstIP(lookup) == To4(Head(lookup.ips))

\* the local step at which performSynScan returns Filtered, "" for none
SynStop(env) ==
    IF env.early # "" THEN env.early
    ELSE IF env.lookup.err # "" THEN "lookup"
    ELSE IF SynDstIP(env.lookup) = NoIP THEN "not ipv4"
    ELSE env.late

NoFilter == [srcHost |-> "", srcPort |-> 0, dstHost |-> "", dstPort |-> 0]
\* "tcp and src host %s and src port %d and dst host %s and dst port %d"
SynFilter(dstIP, port, srcIP, srcPort) ==
    [srcHost |-> dstIP.addr, srcPort |-> port, dstHost |-> srcIP.addr, dstPort |-> srcPort]

SynRunOf(env) ==
    [pc |-> "ready", mode |-> "syn", job |-> [host |-> "a", port |-> 80], env |-> env,
     stop |-> "", dstIP |-> NoIP, srcPort |-> 0, filter |-> NoFilter, state |-> ""]

SynInit ==
    /\ scan = [c \in Callers |-> IdleScan]
    /\ cli = CliOff
    /\ store = [id \in TaskIds |-> <<>>]
    /\ queue = <<>>
    /\ handlers = [id \in TaskIds |-> [pc |-> "off", task |-> NoTask]]
    /\ loops = [l \in Loops |-> LoopAt("off")]
    /\ modeInit = [m \in {"syn", "udp"} |-> FreshInit]
    /\ net = QueuedNetwork
    /\ probeCache = NewProbeCache(ProbeFile)
    /\ \E env \in SynEnvs : wk = SynRunOf(env)

\* performSynScan for one job
SynScanJob ==
    /\ wk.pc = "ready"
    /\ LET env == wk.env
           stop == SynStop(env)
           resolved == stop \notin {"interfaces", "no source address", "lookup", "not ipv4"}
           opened == stop \notin SynStepsBeforeOpen
           dstIP == IF resolved THEN SynDstIP(env.lookup) ELSE NoIP
           srcPort == IF opened THEN SynSrcPort(env.rnd) ELSE 0
       IN  wk' = [wk EXCEPT !.pc = "done",
                            !.stop = stop,
                            !.dstIP = dstIP,
                            !.srcPort = srcPort,
                            !.filter = IF opened
                                       THEN SynFilter(dstIP, wk.job.port, SynSrcIP, srcPort)
                                       ELSE NoFilter,
                            !.state = performSynScan([localErr |-> stop,
                                                      packets |-> env.packets])]
    /\ UNCHANGED <<scan, cli, store, queue, handlers, loops, modeInit, net, probeCache>>

SynNext == SynScanJob

SynSpec == SynInit /\ [][SynNext]_vars

(***************************************************************************)
(* The probe file: payload decoding (parseProbeData) on Go strings, bytes  *)
(* being numbers of 0..255.                                                *)
(***************************************************************************)
BackSlash == "\\"
Quote == "\""
OctalDigits == {"0", "1", "2", "3", "4", "5", "6", "7"}
HexDigitSeq ==
    <<"0", "1", "2", "3", "4", "5", "6", "7", "8", "9", "a", "b", "c", "d", "e", "f">>
UpperHex == <<"A", "B", "C", "D", "E", "F">>

\* isOctalDigit
isOctalDigit(c) == c \in OctalDigits

\* toLowerHexDigit
toLowerHexDigit(c) ==
    IF \E i \in DOMAIN UpperHex : UpperHex[i] = c
    THEN HexDigitSeq[10 + CHOOSE i \in DOMAIN UpperHex : UpperHex[i] = c]
    ELSE c

IsHexDigit(c) == \E i \in DOMAIN HexDigitSeq : HexDigitSeq[i] = toLowerHexDigit(c)
HexVal(c) == (CHOOSE i \in DOMAIN HexDigitSeq : HexDigitSeq[i] = toLowerHexDigit(c)) - 1

\* the byte of a character of the payloads followed
Ascii(c) ==
    CASE c = "a" -> 97 [] c = "x" -> 120 [] c = "n" -> 110 [] c = "A" -> 65
      [] c = "q" -> 113 [] c = "|" -> 124 [] c = " " -> 32
      [] c = Quote -> 34 [] c = BackSlash -> 92
      [] c \in Digits -> 48 + DigitVal(c)

\* normalizeEscapeSequences, from position p of s on
RECURSIVE normalizeFrom(_, _)
normalizeFrom(s, p) ==
    IF p > Len(s) THEN <<>>
    ELSE IF s[p] = BackSlash /\ p + 1 <= Len(s) /\ s[p + 1] = "0"
    THEN IF p + 2 > Len(s)
         THEN <<BackSlash, "x", "0", "0">> \o normalizeFrom(s, p + 2)
         ELSE IF isOctalDigit(s[p + 2]) /\ p + 3 <= Len(s) /\ isOctalDigit(s[p + 3])
         THEN <<s[p]>> \o normalizeFrom(s, p + 1)
         ELSE <<BackSlash, "x", "0", "0">> \o normalizeFrom(s, p + 2)
    ELSE IF s[p] = BackSlash /\ p + 1 <= Len(s) /\ s[p + 1] = "x" /\ p + 3 <= Len(s)
    THEN <<BackSlash, "x", toLowerHexDigit(s[p + 2]), toLowerHexDigit(s[p + 3])>>
             \o normalizeFrom(s, p + 4)
    ELSE <<s[p]>> \o normalizeFrom(s, p + 1)

normalizeEscapeSequences(s) == normalizeFrom(s, 1)

\* escapeInternalQuotes, from position p of s on
RECURSIVE escapeQuotesFrom(_, _)
escapeQuotesFrom(s, p) ==
    IF p > Len(s) THEN <<>>
    ELSE IF s[p] = Quote /\ ~(p > 1 /\ s[p - 1] = BackSlash)
    THEN <<BackSlash, Quote>> \o escapeQuotesFrom(s, p + 1)
    ELSE <<s[p]>> \o escapeQuotesFrom(s, p + 1)

escapeInternalQuotes(s) == escapeQuotesFrom(s, 1)

SyntaxErr == [err |-> "invalid syntax", bytes |-> <<>>]
\* b put in front of the bytes of a decoding that succeeded
Prepend(b, rest) == IF rest.err # "" THEN rest ELSE [err |-> "", bytes |-> <<b>> \o rest.bytes]

\* strconv.Unquote of the double-quoted string "s": a bare quote is a syntax
\* error, an octal escape has exactly three digits, \x has two hex digits
RECURSIVE Unquote(_)
Unquote(s) ==
    IF s = <<>> THEN [err |-> "", bytes |-> <<>>]
    ELSE IF s[1] = Quote THEN SyntaxErr
    ELSE IF s[1] # BackSlash THEN Prepend(Ascii(s[1]), Unquote(Tail(s)))
    ELSE IF Len(s) < 2 THEN SyntaxErr
    ELSE LET c == s[2]
         IN  CASE c = "n" -> Prepend(10, Unquote(SubSeq(s, 3, Len(s))))
               [] c = "r" -> Prepend(13, Unquote(SubSeq(s, 3, Len(s))))
               [] c = "t" -> Prepend(9, Unquote(SubSeq(s, 3, Len(s))))
               [] c = BackSlash -> Prepend(92, Unquote(SubSeq(s, 3, Len(s))))
               [] c = Quote -> Prepend(34, Unquote(SubSeq(s, 3, Len(s))))
               [] c = "x" ->
                    IF Len(s) >= 4 /\ IsHexDigit(s[3]) /\ IsHexDigit(s[4])
                    THEN Prepend(HexVal(s[3]) * 16 + HexVal(s[4]),
                                 Unquote(SubSeq(s, 5, Len(s))))
                    ELSE SyntaxErr
               [] isOctalDigit(c) ->
                    IF Len(s) >= 4 /\ isOctalDigit(s[3]) /\ isOctalDigit(s[4])
                          /\ DigitVal(c) * 64 + DigitVal(s[3]) * 8 + DigitVal(s[4]) <= 255
                    THEN Prepend(DigitVal(c) * 64 + DigitVal(s[3]) * 8 + DigitVal(s[4]),
                                 Unquote(SubSeq(s, 5, Len(s))))
                    ELSE SyntaxErr
               [] OTHER -> SyntaxErr

\* strings.LastIndex(s, "|") as a position of s, 0 for none
LastPipe(s) ==
    IF \A i \in DOMAIN s : s[i] # "|" THEN 0
    ELSE CHOOSE i \in DOMAIN s : s[i] = "|" /\ \A j \in (i + 1)..Len(s) : s[j] # "|"

ErrProbeData == "probe data must be in format q|...|"
\* parseProbeData
parseProbeData(dataStr) ==
    IF Len(dataStr) < 3 \/ dataStr[1] # "q" \/ dataStr[2] # "|"
    THEN [err |-> ErrProbeData, bytes |-> <<>>]
    ELSE LET closing == LastPipe(SubSeq(dataStr, 3, Len(dataStr)))
         IN  IF closing = 0 THEN [err |-> ErrProbeData, bytes |-> <<>>]
             ELSE LET content == SubSeq(dataStr, 3, closing + 1)
                      unquoted == Unquote(escapeInternalQuotes(
                                              normalizeEscapeSequences(content)))
                  IN  IF unquoted.err # ""
                      THEN [err |-> "cannot unquote probe data", bytes |-> <<>>]
                      ELSE unquoted

\* the pieces payloads are built from: literal characters, a bare quote and
\* the escapes \0, \x4A, \n, \\ and \"
PayloadPieces ==
    { <<"a">>, <<"0">>, <<"7">>, <<Quote>>, <<BackSlash, "0">>,
      <<BackSlash, "x", "4", "A">>, <<BackSlash, "n">>, <<BackSlash, BackSlash>>,
      <<BackSlash, Quote>> }
MaxPieces == 3
Payloads ==
    {<<>>} \cup PayloadPieces
    \cup {a \o b : a \in PayloadPieces, b \in PayloadPieces}
    \cup {a \o b \o c : a \in PayloadPieces, b \in PayloadPieces, c \in PayloadPieces}

PayloadInit ==
    /\ scan = [c \in Callers |-> IdleScan]
    /\ cli = CliOff
    /\ store = [id \in TaskIds |-> <<>>]
    /\ queue = <<>>
    /\ handlers = [id \in TaskIds |-> [pc |-> "off", task |-> NoTask]]
    /\ loops = [l \in Loops |-> LoopAt("off")]
    /\ modeInit = [m \in {"syn", "udp"} |-> FreshInit]
    /\ net = QueuedNetwork
    /\ probeCache = NewProbeCache(ProbeFile)
    /\ \E p \in Payloads :
          wk = [pc |-> "ready", payload |-> p, data |-> [err |-> "", bytes |-> <<>>]]

\* parseProbeData applied to q|payload|
ParsePayload ==
    /\ wk.pc = "ready"
    /\ wk' = [wk EXCEPT !.pc = "done",
                        !.data = parseProbeData(<<"q", "|">> \o wk.payload \o <<"|">>)]
    /\ UNCHANGED <<scan, cli, store, queue, handlers, loops, modeInit, net, probeCache>>

PayloadNext == ParsePayload

PayloadSpec == PayloadInit /\ [][PayloadNext]_vars

(***************************************************************************)
(* The probe file: LoadProbes line by line, parseProbe, parseMatch, and    *)
(* the catalogue the server builds from the probes returned.               *)
(***************************************************************************)
\* strings.HasPrefix, strings.TrimPrefix
HasPrefix(s, p) == Len(s) >= Len(p) /\ SubSeq(s, 1, Len(p)) = p
TrimPrefix(s, p) == IF HasPrefix(s, p) THEN SubSeq(s, Len(p) + 1, Len(s)) ELSE s

\* strings.SplitN(s, sep, n) for a one-character separator
RECURSIVE SplitN(_, _, _)
SplitN(s, sep, n) ==
    IF n <= 1 \/ \A i \in DOMAIN s : s[i] # sep THEN <<s>>
    ELSE LET i == CHOOSE k \in DOMAIN s : s[k] = sep /\ \A j \in 1..(k - 1) : s[j] # sep
         IN  <<SubSeq(s, 1, i - 1)>> \o SplitN(SubSeq(s, i + 1, Len(s)), sep, n - 1)

\* strings.TrimSpace
RECURSIVE TrimSpace(_)
TrimSpace(s) ==
    IF s = <<>> THEN s
    ELSE IF s[1] = " " THEN TrimSpace(Tail(s))
    ELSE IF s[Len(s)] = " " THEN TrimSpace(SubSeq(s, 1, Len(s) - 1))
    ELSE s

\* the Go string a protocol token spells
GoString(cs) ==
    CASE cs = <<"T", "C", "P">> -> "TCP"
      [] cs = <<"U", "D", "P">> -> "UDP"
      [] cs = <<"S", "C", "T", "P">> -> "SCTP"
      [] OTHER -> "other"

NoProbe == [protocol |-> "", name |-> <<>>, data |-> <<>>, matches |-> <<>>]
\* parseProbe
parseProbe(line) ==
    LET parts == SplitN(TrimPrefix(line, <<"P", "r", "o", "b", "e", " ">>), " ", 3)
    IN  IF Len(parts) < 3 THEN [err |-> "invalid Probe format", probe |-> NoProbe]
        ELSE LET data == parseProbeData(parts[3])
             IN  IF data.err # ""
                 THEN [err |-> "cannot parse probe data", probe |-> NoProbe]
                 ELSE [err |-> "",
                       probe |-> [protocol |-> GoString(parts[1]), name |-> parts[2],
                                  data |-> data.bytes, matches |-> <<>>]]

\* containsUnsupportedRegex: lookahead, lookbehind, backreference
containsUnsupportedRegex(pattern) ==
    \/ \E c \in {"!", "="} : Contains(pattern, <<"(", "?", c>>)
    \/ \E c \in {"!", "="} : Contains(pattern, <<"(", "?", "<", c>>)
    \/ \E d \in Digits \ {"0"} : Contains(pattern, <<BackSlash, d>>)

\* regexp.Compile of the patterns followed: the flag groups in front set the
\* flags, a repeat count above 1000 and an unclosed group are errors
RECURSIVE regexpCompile(_)
regexpCompile(s) ==
    IF HasPrefix(s, <<"(", "?", "i", ")">>)
    THEN [regexpCompile(SubSeq(s, 5, Len(s))) EXCEPT !.caseInsensitive = TRUE]
    ELSE IF HasPrefix(s, <<"(", "?", "s", ")">>)
    THEN [regexpCompile(SubSeq(s, 5, Len(s))) EXCEPT !.dotAll = TRUE]
    ELSE [err |-> IF Contains(s, <<"{", "2", "0", "0", "0", "}">>) THEN "invalid repeat count"
                  ELSE IF Cardinality({i \in DOMAIN s : s[i] = "("})
                            # Cardinality({i \in DOMAIN s : s[i] = ")"})
                  THEN "missing closing )"
                  ELSE "",
          caseInsensitive |-> FALSE, dotAll |-> FALSE, expr |-> s]

NoMatch == [serviceName |-> <<>>, pattern |-> regexpCompile(<<>>)]
MatchError(msg) == [err |-> msg, unsupported |-> FALSE, match |-> NoMatch]
UnsupportedRegexError == [err |-> "unsupported Perl regex", unsupported |-> TRUE, match |-> NoMatch]

\* parseMatch
parseMatch(line) ==
    LET parts == SplitN(TrimPrefix(line, <<"m", "a", "t", "c", "h", " ">>), " ", 2)
    IN  IF Len(parts) < 2 THEN MatchError("invalid match format")
        ELSE LET patternStr == parts[2]
             IN  IF Len(patternStr) < 2 \/ patternStr[1] # "m"
                 THEN MatchError("invalid match pattern format: missing 'm'")
                 ELSE LET patternParts == SplitN(SubSeq(patternStr, 3, Len(patternStr)),
                                                 patternStr[2], 2)
                      IN  IF Len(patternParts) < 2
                          THEN MatchError("invalid match pattern format: could not split")
                          ELSE LET flagsAndVersion == patternParts[2]
                                   withI == IF Contains(flagsAndVersion, <<"i">>)
                                            THEN <<"(", "?", "i", ")">> \o patternParts[1]
                                            ELSE patternParts[1]
                                   regexStr == IF Contains(flagsAndVersion, <<"s">>)
                                               THEN <<"(", "?", "s", ")">> \o withI
                                               ELSE withI
                                   regex == regexpCompile(regexStr)
                               IN  IF containsUnsupportedRegex(regexStr)
                                   THEN UnsupportedRegexError
                                   ELSE IF regex.err = "invalid repeat count"
                                   THEN UnsupportedRegexError
                                   ELSE IF regex.err # ""
                                   THEN MatchError("cannot compile regex")
                                   ELSE [err |-> "", unsupported |-> FALSE,
                                         match |-> [serviceName |-> parts[1],
                                                    pattern |-> regex]]

\* isKnownDirective
isKnownDirective(line) ==
    \E d \in { <<"s", "o", "f", "t", "m", "a", "t", "c", "h">>, <<"p", "o", "r", "t", "s">>,
               <<"s", "s", "l", "p", "o", "r", "t", "s">>, <<"r", "a", "r", "i", "t", "y">>,
               <<"f", "a", "l", "l", "b", "a", "c", "k">>, <<"E", "x", "c", "l", "u", "d", "e">>,
               <<"t", "o", "t", "a", "l", "w", "a", "i", "t", "m", "s">>,
               <<"t", "c", "p", "w", "r", "a", "p", "p", "e", "d", "m", "s">> } :
        HasPrefix(line, d)

\* LoadProbes before its first line: currentProbe is <<>> for nil
LoadStart ==
    [currentProbe |-> <<>>, probes |-> <<>>,
     stats |-> [totalLines |-> 0, probeCount |-> 0, matchCount |-> 0, errorLines |-> <<>>]]

\* variant of LoadLine: a Probe line that fails to parse leaves currentProbe
LoadLineKeepsProbe(st, line) ==
    LET n == st.stats.totalLines + 1
        t == TrimSpace(line)
        counted == [st EXCEPT !.stats.totalLines = n]
        logged(msg) == [counted EXCEPT !.stats.errorLines =
                                           Append(@, [lineNumber |-> n, message |-> msg])]
    IN  IF t = <<>> \/ HasPrefix(t, <<"#">>) THEN counted
        ELSE IF HasPrefix(t, <<"P", "r", "o", "b", "e">>)
        THEN LET parsed == parseProbe(t)
             IN  IF parsed.err # ""
                 THEN [logged(parsed.err) EXCEPT !.probes = @ \o st.currentProbe]
                 ELSE [counted EXCEPT !.probes = @ \o st.currentProbe,
                                      !.currentProbe = <<parsed.probe>>,
                                      !.stats.probeCount = @ + 1]
        ELSE IF HasPrefix(t, <<"m", "a", "t", "c", "h", " ">>)
        THEN IF st.currentProbe = <<>> THEN logged("match found without preceding Probe")
             ELSE LET parsed == parseMatch(t)
                  IN  IF parsed.unsupported THEN counted
                      ELSE IF parsed.err # "" THEN logged("match parse error")
                      ELSE [counted EXCEPT !.currentProbe[1].matches = Append(@, parsed.match),
                                           !.stats.matchCount = @ + 1]
        ELSE IF isKnownDirective(t) THEN counted
        ELSE logged("Unknown line format")

\* variant of LoadLine: a match with an unsupported pattern is recorded
LoadLineLogsDropped(st, line) ==
    LET n == st.stats.totalLines + 1
        t == TrimSpace(line)
        counted == [st EXCEPT !.stats.totalLines = n]
        logged(msg) == [counted EXCEPT !.stats.errorLines =
                                           Append(@, [lineNumber |-> n, message |-> msg])]
    IN  IF t = <<>> \/ HasPrefix(t, <<"#">>) THEN counted
        ELSE IF HasPrefix(t, <<"P", "r", "o", "b", "e">>)
        THEN LET parsed == parseProbe(t)
             IN  IF parsed.err # ""
                 THEN [logged(parsed.err) EXCEPT !.probes = @ \o st.currentProbe,
                                                 !.currentProbe = <<>>]
                 ELSE [counted EXCEPT !.probes = @ \o st.currentProbe,
                                      !.currentProbe = <<parsed.probe>>,
                                      !.stats.probeCount = @ + 1]
        ELSE IF HasPrefix(t, <<"m", "a", "t", "c", "h", " ">>)
        THEN IF st.currentProbe = <<>> THEN logged("match found without preceding Probe")
             ELSE LET parsed == parseMatch(t)
                  IN  IF parsed.err # "" THEN logged("match parse error")
                      ELSE [counted EXCEPT !.currentProbe[1].matches = Append(@, parsed.match),
                                           !.stats.matchCount = @ + 1]
        ELSE IF isKnownDirective(t) THEN counted
        ELSE logged("Unknown line format")

\* LoadProbes: the body of its scanner loop for one line
LoadLine(st, line) ==
    LET n == st.stats.totalLines + 1
        t == TrimSpace(line)
        counted == [st EXCEPT !.stats.totalLines = n]
        logged(msg) == [counted EXCEPT !.stats.errorLines =
                                           Append(@, [lineNumber |-> n, message |-> msg])]
    IN  IF t = <<>> \/ HasPrefix(t, <<"#">>) THEN counted
        ELSE IF HasPrefix(t, <<"P", "r", "o", "b", "e">>)
        THEN LET parsed == parseProbe(t)
             IN  IF parsed.err # ""
                 THEN [logged(parsed.err) EXCEPT !.probes = @ \o st.currentProbe,
                                                 !.currentProbe = <<>>]
                 ELSE [counted EXCEPT !.probes = @ \o st.currentProbe,
                                      !.currentProbe = <<parsed.probe>>,
                                      !.stats.probeCount = @ + 1]
        ELSE IF HasPrefix(t, <<"m", "a", "t", "c", "h", " ">>)
        THEN IF st.currentProbe = <<>> THEN logged("match found without preceding Probe")
             ELSE LET parsed == parseMatch(t)
                  IN  IF parsed.unsupported THEN counted
                      ELSE IF parsed.err # "" THEN logged("match parse error")
                      ELSE [counted EXCEPT !.currentProbe[1].matches = Append(@, parsed.match),
                                           !.stats.matchCount = @ + 1]
        ELSE IF isKnownDirective(t) THEN counted
        ELSE logged("Unknown line format")

\* words of the probe files followed
WProbe == <<"P", "r", "o", "b", "e">>
WMatch == <<"m", "a", "t", "c", "h">>
Sp == <<" ">>
LineProbeTCP == WProbe \o Sp \o <<"T", "C", "P">> \o Sp \o <<"A">> \o Sp \o <<"q", "|", "a", "|">>
LineProbeUDP == WProbe \o Sp \o <<"U", "D", "P">> \o Sp \o <<"B">> \o Sp \o <<"q", "|", "|">>
LineProbeSCTP ==
    WProbe \o Sp \o <<"S", "C", "T", "P">> \o Sp \o <<"C">> \o Sp \o <<"q", "|", "a", "|">>
LineProbeShort == WProbe \o Sp \o <<"T", "C", "P">> \o Sp \o <<"D">>
MatchLine(rest) == WMatch \o Sp \o <<"s">> \o Sp \o rest
LineMatchPlain == MatchLine(<<"m", "|", "a", "|">>)
LineMatchFlagI == MatchLine(<<"m", "=", "a", "=", "i">>)
LineMatchVersion == MatchLine(<<"m", "|", "a", "|", " ", "p", "/", "i", "s", "/">>)
LineMatchLookahead == MatchLine(<<"m", "|", "(", "?", "!", "a", ")", "|">>)
LineMatchRepeat == MatchLine(<<"m", "|", "a", "{", "2", "0", "0", "0", "}", "|">>)
LineMatchUnclosed == MatchLine(<<"m", "|", "(", "a", "|">>)
LineMatchNoPattern == WMatch \o Sp \o <<"s">>
LineSoftmatch == <<"s", "o", "f", "t">> \o MatchLine(<<"m", "|", "a", "|">>)
LineUnknown == <<"g", "a", "r", "b", "a", "g", "e">>
LineComment == <<" ", "#", " ", "c">>

ProbeFileLines ==
    { <<>>, LineComment, LineProbeTCP, LineProbeUDP, LineProbeSCTP, LineProbeShort,
      LineMatchPlain, LineMatchFlagI, LineMatchVersion, LineMatchLookahead, LineMatchRepeat,
      LineMatchUnclosed, LineMatchNoPattern, LineSoftmatch, LineUnknown }
MaxLines == 4

NoCache == NewProbeCache(<<>>)
LoadInit ==
    /\ scan = [c \in Callers |-> IdleScan]
    /\ cli = CliOff
    /\ store = [id \in TaskIds |-> <<>>]
    /\ queue = <<>>
    /\ handlers = [id \in TaskIds |-> [pc |-> "off", task |-> NoTask]]
    /\ loops = [l \in Loops |-> LoopAt("off")]
    /\ modeInit = [m \in {"syn", "udp"} |-> FreshInit]
    /\ net = QueuedNetwork
    /\ probeCache = NoCache
    /\ wk = [pc |-> "scan", file |-> <<>>, load |-> LoadStart,
             ret |-> [probes |-> <<>>, err |-> ""]]

\* LoadProbes: scanner.Scan() returns a line and the loop body runs
ScanLine ==
    /\ wk.pc = "scan"
    /\ Len(wk.file) < MaxLines
    /\ \E line \in ProbeFileLines :
          wk' = [wk EXCEPT !.file = Append(@, line), !.load = LoadLine(wk.load, line)]
    /\ UNCHANGED <<scan, cli, store, queue, handlers, loops, modeInit, net, probeCache>>

\* LoadProbes at the end of the file: the last probe is added, the probes are
\* returned and the server builds its catalogue from them
LoadProbesReturn ==
    /\ wk.pc = "scan"
    /\ LET probes == wk.load.probes \o wk.load.currentProbe
       IN  /\ wk' = [wk EXCEPT !.pc = "returned",
                               !.load.probes = probes,
                               !.ret = [probes |-> probes, err |-> ""]]
           /\ probeCache' = NewProbeCache(probes)
    /\ UNCHANGED <<scan, cli, store, queue, handlers, loops, modeInit, net>>

\* LoadProbes when scanner.Scan() stops on an error (a failed read, a line
\* above the scanner's token size): nil probes and the error are returned,
\* and the server does not start
LoadProbesReadError ==
    /\ wk.pc = "scan"
    /\ wk' = [wk EXCEPT !.pc = "failed",
                        !.load.probes = wk.load.probes \o wk.load.currentProbe,
                        !.ret = [probes |-> <<>>, err |-> "error reading file"]]
    /\ UNCHANGED <<scan, cli, store, queue, handlers, loops, modeInit, net, probeCache>>

LoadNext == ScanLine \/ LoadProbesReturn \/ LoadProbesReadError

LoadSpec == LoadInit /\ [][LoadNext]_vars

(***************************************************************************)
(* Properties.                                                             *)
(***************************************************************************)
Stored(id) == store[id] # <<>>
StoredTask(id) == deserializeTask(store[id][1])
StatusOf(st, id) == IF st[id] = <<>> THEN "" ELSE st[id][1].status
Terminal == {"completed", "failed"}

\* number of positions of seq holding x
Count(seq, x) == Cardinality({i \in DOMAIN seq : seq[i] = x})
JobOf(r) == [host |-> r.host, port |-> r.port]
ProjectJobs(rs) == [i \in DOMAIN rs |-> JobOf(rs[i])]

\* C1: every stored task with status completed holds exactly
\* len(hosts) * (end - start + 1) results, (start, end) being its parsed range
C1_ResultCardinality ==
    \A id \in TaskIds :
        (Stored(id) /\ StoredTask(id).status = "completed") =>
            LET t == StoredTask(id)
                range == parsePortRange(t.ports)
            IN  /\ range.err = ""
                /\ Len(t.results.items) = Len(t.hosts) * (range.end - range.start + 1)

\* C1 witness: a connect scan of two ports, run by several workers, is stored completed
C1_Witness ==
    \E id \in TaskIds :
        /\ Stored(id)
        /\ StoredTask(id).status = "completed"
        /\ StoredTask(id).mode = "connect"
        /\ Len(StoredTask(id).results.items) = 2
        /\ ConnectWorkerCount >= 2

\* C2: once the stored status of a task is completed or failed, no step of the
\* create handler or of a consumer loop changes it
C2_Terminality ==
    [][\A id \in TaskIds :
          StatusOf(store, id) \in Terminal => StatusOf(store', id) = StatusOf(store, id)]_vars

\* C2 witness: a task is terminal while a consumer loop is busy with another task
C2_Witness ==
    \E id \in TaskIds, l \in Loops :
        /\ StatusOf(store, id) \in Terminal
        /\ loops[l].pc \in {"running", "parse", "select", "init", "scan"}
        /\ loops[l].taskID # id

StatusEdges ==
    { <<"pending", "running">>, <<"running", "completed">>, <<"running", "failed">>,
      <<"pending", "failed">> }

\* C3: a task is created pending, and every later write that changes its hash
\* moves the status along pending->running, running->completed,
\* running->failed or pending->failed
C3_Lifecycle ==
    [][\A id \in TaskIds :
          /\ (~Stored(id) /\ store'[id] # <<>>) => StatusOf(store', id) = "pending"
          /\ Stored(id) =>
                /\ store'[id] # <<>>
                /\ store'[id] # store[id] =>
                      <<StatusOf(store, id), StatusOf(store', id)>> \in StatusEdges]_vars

\* C3 witness: one task went pending->running->completed, another pending->failed
C3_Witness ==
    \E id1, id2 \in TaskIds :
        /\ StatusOf(store, id1) = "completed"
        /\ StatusOf(store, id2) = "failed"
        /\ StoredTask(id2).error = "failed to queue task"

\* C4: a stored completed task has an empty error; a stored failed task has no
\* results and a non-empty error
C4_ErrorAndResults ==
    \A id \in TaskIds :
        Stored(id) =>
            LET t == StoredTask(id)
            IN  /\ t.status = "completed" => t.error = ""
                /\ t.status = "failed" => (Len(t.results.items) = 0 /\ t.error # "")

\* C4 witness: a task failed by the port parser next to a completed task
C4_Witness ==
    \E id1, id2 \in TaskIds :
        /\ StatusOf(store, id1) = "completed"
        /\ StatusOf(store, id2) = "failed"
        /\ StoredTask(id2).error = ErrStartGtEnd

\* C5: completed_at is unset while the stored status is pending or running and
\* set once it is completed or failed; results are non-empty only when completed
C5_CompletedAtAndResults ==
    \A id \in TaskIds :
        Stored(id) =>
            LET t == StoredTask(id)
            IN  /\ t.status \in {"pending", "running"} => t.completedAt = "nil"
                /\ t.status \in Terminal => t.completedAt # "nil"
                /\ Len(t.results.items) > 0 => t.status = "completed"

\* C5 witness: a completed task with results and a timestamp next to a running one
C5_Witness ==
    \E id1, id2 \in TaskIds :
        /\ StatusOf(store, id1) = "completed"
        /\ Len(StoredTask(id1).results.items) > 0
        /\ StoredTask(id1).completedAt = "now"
        /\ StatusOf(store, id2) = "running"

\* a consumer loop leaves GetTask through one of its error branches
GetTaskFails(l) == loops[l].pc = "get" /\ loops'[l].pc = "pop"

\* C6 as claimed: when GetTask fails for a dequeued id, the task goes from
\* pending to failed
C6_AsClaimed ==
    [][\A l \in Loops :
          GetTaskFails(l) => StatusOf(store', loops[l].taskID) = "failed"]_vars

\* C6 amended: when GetTask fails for a dequeued id, the loop writes nothing:
\* the store is unchanged and a stored task keeps its status pending
C6_GetTaskFailureSkips ==
    [][\A l \in Loops :
          GetTaskFails(l) =>
              /\ store' = store
              /\ StatusOf(store', loops[l].taskID) \in {"", "pending"}]_vars

\* C6 witness: an id was dequeued and dropped, its task is still stored pending
C6_Witness ==
    \E id \in TaskIds :
        /\ StatusOf(store, id) = "pending"
        /\ handlers[id].pc = "done"
        /\ \A i \in DOMAIN queue : queue[i] # id
        /\ \A l \in Loops : loops[l].taskID # id

\* the scan the command-line process runs
CliScan == scan[CliCaller]
ScanActive(s) == s.pc \in {"drain", "returned"}
\* (host, port) pairs the claims quantify over: the scanned range and its neighbours
NearbyPorts(s) == (s.startPort - 1) .. (s.endPort + 1)
\* how many jobs a scan over hosts x [startPort, endPort] owes for (host, port)
Owed(s, h, p) == IF s.startPort <= p /\ p <= s.endPort THEN Count(s.hosts, h) ELSE 0
\* jobs sitting in the job channel, held by a worker, or turned into a result
HeldJobs(s) ==
    LET busy == {w \in WorkerIds : s.workers[w].pc = "send"}
        held == [j \in {s.workers[w].job : w \in busy} |->
                    Cardinality({w \in busy : s.workers[w].job = j})]
    IN  held
InFlight(s, j) ==
    Count(s.jobs, j)
    + (IF j \in DOMAIN HeldJobs(s) THEN HeldJobs(s)[j] ELSE 0)
    + Count(ProjectJobs(s.results), j)
    + Count(ProjectJobs(s.scanResults), j)

\* C7: every (host, port) of hosts x [start, end] is enqueued once per host
\* occurrence, every enqueued job is held by exactly one place at a time (job
\* channel, one worker, or one result), and the returned results projected to
\* (host, port) are the enqueued jobs as a multiset
C7_JobsExactlyOnce ==
    LET s == CliScan
        enqueued == SubSeq(ProducerJobs(s.hosts, s.startPort, s.endPort), 1, s.sent)
    IN  ScanActive(s) =>
            \A h \in Hosts, p \in NearbyPorts(s) :
                LET j == [host |-> h, port |-> p]
                IN  /\ InFlight(s, j) = Count(enqueued, j)
                    /\ s.jobsClosed => Count(enqueued, j) = Owed(s, h, p)
                    /\ s.pc = "returned" =>
                          Count(ProjectJobs(s.scanResults), j) = Owed(s, h, p)

\* C7 witness: a scan naming one host twice returned two results for its port,
\* and a two-worker scan of two hosts and two ports returned four results
C7_Witness ==
    /\ CliScan.pc = "returned"
    /\ \/ (CliScan.hosts = <<"a", "a">> /\ Len(CliScan.scanResults) = 2)
       \/ (Len(CliScan.hosts) = 2 /\ Len(CliScan.scanResults) = 4)

ValidScanInput(s) == 0 <= s.startPort /\ s.startPort <= s.endPort
AllGoroutinesExited(s) ==
    /\ s.producer = "exit"
    /\ s.coordinator = "exit"
    /\ \A w \in WorkerIds : s.workers[w].pc \in {"none", "exit"}

\* C8: under fair scheduling a scan started with a valid range returns, with
\* the producer, the coordinator and every worker goroutine finished
C8_ScanTerminates ==
    (CliScan.pc = "drain" /\ ValidScanInput(CliScan))
        ~> (CliScan.pc = "returned" /\ AllGoroutinesExited(CliScan))

\* C8 witness: a scan with more jobs than the job channel holds has returned
\* and all its goroutines have finished
C8_Witness ==
    /\ CliScan.pc = "returned"
    /\ CliScan.totalJobs > JobChanCap
    /\ AllGoroutinesExited(CliScan)

\* C9: with a valid range the result channel is closed only after every result
\* was sent, nothing is sent on it once closed, it is closed once, the
\* WaitGroup counter stays non-negative and the caller drains every result
C9_ResultChannelProtocol ==
    LET s == CliScan
    IN  (s.pc # "idle" /\ ValidScanInput(s)) =>
            /\ s.pc # "panicked"
            /\ s.panic = ""
            /\ s.wg >= 0
            /\ s.resultsClosed =>
                  /\ Len(s.results) + Len(s.scanResults) = s.totalJobs
                  /\ s.coordinator = "exit"
                  /\ \A w \in WorkerIds : s.workers[w].pc \notin {"send", "done"}
            /\ s.pc = "returned" => (s.results = <<>> /\ Len(s.scanResults) = s.totalJobs)

\* C9 witness: the result channel of a multi-worker scan is closed while
\* results are still waiting to be drained
C9_Witness ==
    /\ CliScan.resultsClosed
    /\ CliScan.pc = "drain"
    /\ Len(CliScan.results) >= 2
    /\ CliScan.totalJobs = 4

\* C10: ExecuteScan never panics, whatever input it is called with
C10_NeverPanics == CliScan.pc # "panicked"

InitModes == {"syn", "udp"}
LoopMode(l) == workerOf(loops[l].task.mode)
InitRunners(m) == {l \in Loops : loops[l].pc = "init" /\ LoopMode(l) = m}
Moved(l) == loops'[l] # loops[l]

\* C11: each mode's init hook runs at most once per process; a selectWorker
\* call for syn or udp returns only when that mode's run has finished and
\* returns its memoized result; a run changes only its own mode's guard;
\* connect tasks start no hook and wait for none
C11_OnceGuards ==
    /\ [](\A m \in InitModes :
             /\ Cardinality(InitRunners(m)) = IF modeInit[m].once = "running" THEN 1 ELSE 0
             /\ modeInit[m].once # "done" => modeInit[m].err = "")
    /\ [][/\ \A m \in InitModes :
               /\ modeInit[m].once = "done" => modeInit'[m] = modeInit[m]
               /\ modeInit[m].once = "running" => modeInit'[m].once \in {"running", "done"}
               /\ modeInit'[m] # modeInit[m] =>
                     \A m2 \in InitModes \ {m} : modeInit'[m2] = modeInit[m2]
          /\ \A l \in Loops :
               /\ (loops[l].pc # "init" /\ loops'[l].pc = "init") =>
                     /\ LoopMode(l) \in InitModes
                     /\ modeInit[LoopMode(l)].once = "fresh"
                     /\ modeInit'[LoopMode(l)].once = "running"
               /\ (loops[l].pc = "select" /\ Moved(l) /\ loops'[l].pc # "init") =>
                     IF LoopMode(l) \in InitModes
                     THEN /\ modeInit[LoopMode(l)].once = "done"
                          /\ modeInit' = modeInit
                          /\ loops'[l].pc = "scan" <=> modeInit[LoopMode(l)].err = ""
                     ELSE /\ modeInit' = modeInit
                          /\ loops'[l].pc = "scan"]_vars

\* C11 witness: one loop runs a mode's init hook while another loop with a task
\* of the same mode waits in selectWorker, and the other mode's guard is fresh
C11_Witness ==
    \E l1, l2 \in Loops, m \in InitModes :
        /\ l1 # l2
        /\ loops[l1].pc = "init" /\ LoopMode(l1) = m
        /\ loops[l2].pc = "select" /\ LoopMode(l2) = m
        /\ \A m2 \in InitModes \ {m} : modeInit[m2].once = "fresh"

FailedInit(m) == modeInit[m].once = "done" /\ modeInit[m].err # ""
\* loop l handles a task whose id it popped after the init of its mode had failed
DequeuedAfterFailedInit(l) ==
    /\ loops[l].pc \in {"parse", "select"}
    /\ LoopMode(l) \in loops[l].afterFailedInit
BecomesTerminal(id) ==
    StatusOf(store, id) \notin Terminal /\ StatusOf(store', id) \in Terminal
FailedWith(st, id, err) ==
    /\ StatusOf(st, id) = "failed"
    /\ deserializeTask(st[id][1]).error = err
    /\ Len(deserializeTask(st[id][1]).results.items) = 0

Held(id) == \E l \in Loops : loops[l].pc \notin {"pop", "off"} /\ loops[l].taskID = id

\* C13 as claimed: a task stored running is eventually stored completed or failed
C13_AsClaimed ==
    \A id \in TaskIds :
        (StatusOf(store, id) = "running") ~> (StatusOf(store, id) \in Terminal)

\* the WaitGroup of loop l's scan counts the jobs whose wg.Done() has not
\* run: every job not yet answered, and every worker between its send and its
\* wg.Done()
WaitGroupCounts(l) ==
    LET s == scan[l]
    IN  s.pc = "drain" =>
            s.wg + Len(s.results) + Len(s.scanResults)
                = s.totalJobs + Cardinality({w \in WorkerIds : s.workers[w].pc = "done"})

\* C13 amended: the WaitGroup of a running scan counts exactly the jobs not
\* yet done, and a task stored running is eventually stored completed or
\* failed, unless the UpdateTask that would store it returned an error: then
\* the loop has let go of the task and it stays running
C13_RunsToLastWrite ==
    /\ [](\A l \in Loops : WaitGroupCounts(l))
    /\ \A id \in TaskIds :
          (StatusOf(store, id) = "running")
              ~> (StatusOf(store, id) \in Terminal
                  \/ (StatusOf(store, id) = "running" /\ ~Held(id)))

\* C13 witness: a task is stored running and no loop holds it any more
C13_Witness ==
    \E id \in TaskIds :
        /\ StatusOf(store, id) = "running"
        /\ ~Held(id)
        /\ handlers[id].pc = "done"

ParseFails(l) == loops[l].pc = "parse" /\ parsePortRange(loops[l].task.ports).err # ""

C15_ValidRangeAtEveryCall ==
    \A c \in Callers :
        scan[c].pc # "idle" =>
            /\ 0 <= scan[c].startPort
            /\ scan[c].startPort <= scan[c].endPort
            /\ scan[c].endPort <= MaxPort

WorkerRan(mode) == wk.pc = "done" /\ wk.mode = mode
PortStates == {"Open", "Closed", "Filtered", "Open|Filtered"}

C17_ServiceOnlyWhenOpen ==
    wk.pc = "done" =>
        /\ wk.result.state \in {"Closed", "Filtered", "Open|Filtered"} => wk.result.service = ""
        /\ wk.mode \in {"syn", "udp"} => wk.result.service = ""

\* C17 witness: the connect worker read bytes from the peer, then met a reset,
\* and reported Closed with no service
C17_Witness ==
    /\ WorkerRan("connect")
    /\ wk.dial.nil
    /\ wk.conn.first.kind = "data"
    /\ Len(wk.io) > 1
    /\ wk.result.state = "Closed"
    /\ wk.result.service = ""

\* probe j was sent and brought no response: probing goes on with the next one
ProbePasses(j) ==
    /\ Len(wk.probes[j].data) > 0 => wk.conn.replies[j].write = "ok"
    /\ \/ wk.conn.replies[j].read.kind = "timeout"
       \/ wk.conn.replies[j].read = ReadData("")
\* probe i is the first one whose read returns a non-empty response
ProbeAnswered(i) ==
    /\ i \in 1..Len(wk.probes)
    /\ wk.conn.first.kind # "err"
    /\ \A j \in 1..(i - 1) : ProbePasses(j)
    /\ Len(wk.probes[i].data) > 0 => wk.conn.replies[i].write = "ok"
    /\ wk.conn.replies[i].read.kind = "data"
    /\ wk.conn.replies[i].read.data # ""
MatchHits(i) ==
    {k \in 1..Len(wk.probes[i].matches) :
        wk.conn.replies[i].read.data \in wk.probes[i].matches[k].pattern}
ExpectedService(i) ==
    IF MatchHits(i) = {} THEN wk.conn.replies[i].read.data
    ELSE wk.probes[i].matches[CHOOSE k \in MatchHits(i) :
                                 \A k2 \in MatchHits(i) : k <= k2].serviceName

C19_DialErrorClassification ==
    (WorkerRan("connect") /\ ~wk.dial.nil) =>
        /\ wk.io = <<>>
        /\ wk.dial \in {ErrTimeout, ErrRefusedTimeout} => wk.result.state = "Filtered"
        /\ wk.dial \in {ErrRefused, ErrActivelyRefused, ErrRefusedText} =>
              wk.result.state = "Closed"
        /\ wk.dial \in {ErrNoRoute, ErrNoSuchHost} => wk.result.state = "Filtered"

\* C19 witness: a dial refused in the "actively refused" wording gave Closed
C19_Witness ==
    /\ WorkerRan("connect")
    /\ wk.dial = ErrActivelyRefused
    /\ wk.result.state = "Closed"
    /\ wk.io = <<>>

SynDecisive(p) == p.nil \/ (p.tcp /\ ((p.syn /\ p.ack) \/ p.rst))
SynFirstDecisive(ps) ==
    CHOOSE i \in DOMAIN ps : SynDecisive(ps[i]) /\ \A j \in 1..(i - 1) : ~SynDecisive(ps[j])

\* C21: the SYN worker reports Filtered when a local step fails; otherwise the
\* first captured TCP packet with SYN and ACK or with RST decides (Open for
\* SYN and ACK, Closed for RST), packets before it are skipped, and when no
\* such packet comes before the timer fires or the capture ends the state is
\* Filtered
C21_SynReceiveLoop ==
    WorkerRan("syn") =>
        LET x == wk.syn
            state == wk.result.state
        IN  IF x.localErr # "" THEN state = "Filtered"
            ELSE IF \A i \in DOMAIN x.packets : ~SynDecisive(x.packets[i])
            THEN state = "Filtered"
            ELSE LET p == x.packets[SynFirstDecisive(x.packets)]
                 IN  state = IF p.nil THEN "Filtered"
                             ELSE IF p.syn /\ p.ack THEN "Open"
                             ELSE "Closed"

\* C21 witness: the first captured packet was a bare SYN, which the worker
\* skipped; the second one had SYN and ACK and the state is Open
C21_Witness ==
    /\ WorkerRan("syn")
    /\ wk.syn.localErr = ""
    /\ wk.syn.packets = <<TcpPacket(TRUE, FALSE, FALSE), TcpPacket(TRUE, TRUE, FALSE)>>
    /\ wk.result.state = "Open"

\* C22: a task handed to serializeTask and read back with deserializeTask is
\* the same task in every field, and the task GetTask returns after
\* UpdateTask(t) is t whatever the key held before
C22_RoundTrip ==
    \A id \in TaskIds :
        /\ handlers[id].pc = "update" =>
              deserializeTask(serializeTask(handlers[id].task)) = handlers[id].task
        /\ handlers[id].pc = "got" => handlers[id].got = handlers[id].task

\* the worker of this run opened a socket or a capture handle
OpenedResource ==
    \/ wk.mode \in {"connect", "udp"} /\ (IF wk.mode = "udp" THEN wk.udp.dial.nil ELSE wk.dial.nil)
    \/ wk.mode = "syn" /\ wk.syn.localErr \notin SynStepsBeforeOpen

HostLeq(h, g) == h = g \/ (h = "a" /\ g = "b")
ResultLeq(r, q) == IF r.host = q.host THEN r.port <= q.port ELSE HostLeq(r.host, q.host)
SortedByHostPort(rs) == \A i \in 1..(Len(rs) - 1) : ResultLeq(rs[i], rs[i + 1])

\* C24: the results of every stored completed task are sorted by host and
\* then by port
C24_ResultsSorted ==
    \A id \in TaskIds :
        (Stored(id) /\ StatusOf(store, id) = "completed") =>
            SortedByHostPort(StoredTask(id).results.items)

\* C25: the probe cache stays as NewProbeCache built it, and GetTCPProbes
\* returns the TCP probes of the file in file order in every state, so to
\* every worker at every call
C25_CatalogueImmutable ==
    /\ probeCache = NewProbeCache(ProbeFile)
    /\ GetTCPProbes(probeCache) = <<ProbeFile[1], ProbeFile[3]>>

\* C25 witness: a connect worker has probed a connection and sent a result
\* with a service while another worker of the same scan holds a job
C25_Witness ==
    /\ CliScan.mode = "connect"
    /\ \E i \in DOMAIN CliScan.results : CliScan.results[i].service # ""
    /\ \E w \in WorkerIds : CliScan.workers[w].pc = "send"

\* loop l made its step from the running transition and the store did not
\* change: its UpdateTask failed
MarkRunningFails(l) == loops[l].pc = "running" /\ loops'[l] # loops[l] /\ store' = store

\* id was queued and dequeued, no loop holds it, and its task is still pending
Abandoned(id) ==
    /\ StatusOf(store, id) = "pending"
    /\ handlers[id].pc = "done"
    /\ \A i \in DOMAIN queue : queue[i] # id
    /\ \A l \in Loops : loops[l].taskID # id

\* C26: when GetTask fails for a dequeued id or the UpdateTask to running
\* fails, the loop is back at its pop in the same step with the store, the
\* mode inits and every scan untouched, and from then on the stored task of
\* that id never changes
C26_EarlyFailureAbandons ==
    [][/\ \A l \in Loops :
            (GetTaskFails(l) \/ MarkRunningFails(l)) =>
                /\ loops'[l] = LoopAt("pop")
                /\ store' = store
                /\ modeInit' = modeInit
                /\ scan' = scan
                /\ \E id \in TaskIds : id = loops[l].taskID /\ Abandoned(id)'
       /\ \A id \in TaskIds :
            Abandoned(id) => (store'[id] = store[id] /\ Abandoned(id)')]_vars

\* C26 witness: an id was dropped with its task still pending while another
\* task has since been scanned to completion
C26_Witness ==
    \E id \in TaskIds, other \in TaskIds :
        /\ Abandoned(id)
        /\ other > id
        /\ StatusOf(store, other) = "completed"

\* every consumer loop is in PopFromQueue and the queue is empty
AllLoopsWaiting == queue = <<>> /\ \A l \in Loops : loops[l].pc = "pop"

\* the places of a running workerLoop
LoopPlaces == {"pop", "get", "running", "parse", "select", "init", "scan"}

\* C27: a consumer loop never leaves its for loop, and with fairly scheduled
\* loops and terminating scans the loops dequeue every queued id and each
\* loop, whatever the outcome of the ids it handled, is back in PopFromQueue:
\* from some point on the queue is empty and every loop waits in its pop
C27_LoopsDrainQueue ==
    /\ [](\A l \in Loops : loops[l].pc \in LoopPlaces)
    /\ <>[]AllLoopsWaiting

\* C27 witness: the queue is drained and every loop is back at its pop after
\* one task was completed and another failed
C27_Witness ==
    /\ AllLoopsWaiting
    /\ \E id \in TaskIds : StatusOf(store, id) = "completed"
    /\ \E id \in TaskIds : StatusOf(store, id) = "failed"

\* a side of a port expression that is a decimal integer: digits, which may
\* follow a plus sign
UnsignedSide(side) == IF Len(side) > 0 /\ side[1] = "+" THEN Tail(side) ELSE side
IsDecimalSide(side) ==
    /\ UnsignedSide(side) # <<>>
    /\ \A i \in DOMAIN UnsignedSide(side) : UnsignedSide(side)[i] \in Digits
Dashes(ports) == {i \in DOMAIN ports : ports[i] = "-"}
LeftSide(ports) == SubSeq(ports, 1, (CHOOSE i \in Dashes(ports) : TRUE) - 1)
RightSide(ports) == SubSeq(ports, (CHOOSE i \in Dashes(ports) : TRUE) + 1, Len(ports))
\* "<start>-<end>" with decimal sides and 0 <= start <= end <= 65535
GoodPortRange(ports) ==
    /\ Cardinality(Dashes(ports)) = 1
    /\ IsDecimalSide(LeftSide(ports))
    /\ IsDecimalSide(RightSide(ports))
    /\ DecimalValue(UnsignedSide(LeftSide(ports))) <= DecimalValue(UnsignedSide(RightSide(ports)))
    /\ DecimalValue(UnsignedSide(RightSide(ports))) <= MaxPort

ProbeWriteFails(i) == Len(wk.probes[i].data) > 0 /\ wk.conn.replies[i].write = "err"
ProbeReadFails(i) == ~ProbeWriteFails(i) /\ wk.conn.replies[i].read.kind = "err"
ProbeFailsFirst(i) ==
    /\ wk.conn.first.kind # "err"
    /\ \A j \in 1..(i - 1) : ProbePasses(j)
    /\ ProbeWriteFails(i) \/ ProbeReadFails(i)

\* C29: after a successful dial, an error of the pre-read that is no timeout,
\* a failed payload write or a failed probe read gives Closed with no service,
\* and the failed operation is the last one done on the connection; a
\* pre-read that times out leaves the outcome what it is after a pre-read
\* that returned a byte
C29_ErrorEndsProbing ==
    (WorkerRan("connect") /\ wk.dial.nil) =>
        /\ wk.conn.first.kind = "err" =>
              /\ wk.result.state = "Closed"
              /\ wk.result.service = ""
              /\ wk.io = <<<<"read", 0>>>>
        /\ \A i \in 1..Len(wk.probes) :
              ProbeFailsFirst(i) =>
                  /\ wk.result.state = "Closed"
                  /\ wk.result.service = ""
                  /\ wk.io[Len(wk.io)] = <<IF ProbeWriteFails(i) THEN "write" ELSE "read", i>>
                  /\ \A n \in 1..Len(wk.io) : wk.io[n][2] <= i
        /\ wk.conn.first.kind = "timeout" =>
              wk.result = TCPConnectResult(wk.job, wk.dial,
                              probeService([wk.conn EXCEPT !.first = ReadData("S")], wk.probes))

\* C29 witness: the pre-read timed out, the first probe timed out, the write
\* of the second probe failed and the state is Closed
C29_Witness ==
    /\ WorkerRan("connect")
    /\ wk.dial.nil
    /\ wk.conn.first = ReadTimeout
    /\ Len(wk.probes) = 2
    /\ ProbeFailsFirst(2)
    /\ ProbeWriteFails(2)
    /\ wk.result.state = "Closed"
    /\ wk.io[Len(wk.io)] = <<"write", 2>>

\* the probes whose read was done on the connection, in the order of the reads
ProbesRead == SelectSeq(wk.io, LAMBDA e : e[1] = "read" /\ e[2] > 0)

FirstIPv4(ips) ==
    IF \A i \in DOMAIN ips : ~ips[i].v4 THEN NoIP
    ELSE ips[CHOOSE i \in DOMAIN ips : ips[i].v4 /\ \A j \in 1..(i - 1) : ~ips[j].v4]

\* C31: when the lookup returns at least one IPv4 address the SYN worker goes
\* on with the first of them; the lookup step ends in Filtered only when the
\* lookup fails or returns IPv6 addresses only
C31_FirstIPv4 ==
    (wk.pc = "done" /\ wk.env.early = "") =>
        /\ (wk.env.lookup.err = "" /\ FirstIPv4(wk.env.lookup.ips) # NoIP) =>
              /\ wk.stop \notin {"lookup", "not ipv4"}
              /\ wk.dstIP = FirstIPv4(wk.env.lookup.ips)
        /\ wk.stop \in {"lookup", "not ipv4"} =>
              /\ wk.state = "Filtered"
              /\ (wk.env.lookup.err # "" \/ FirstIPv4(wk.env.lookup.ips) = NoIP)

\* C32: the source port of a SYN job lies in [1024, 65535], every value of
\* that interval can be drawn, and the capture filter's destination port is
\* the source port drawn
C32_SourcePortRange ==
    (wk.pc = "done" /\ wk.stop \notin SynStepsBeforeOpen) =>
        /\ wk.srcPort \in 1024..65535
        /\ wk.filter.dstPort = wk.srcPort
        /\ SynSourcePorts = 1024..65535

\* the C-style decoding of a payload text: \0XX with two octal digits is one
\* byte, any other \0 is NUL, \xHH is one byte, \n \r \t \\ \" are one byte
\* each, and every other character, a bare quote included, is its own byte
RECURSIVE CDecode(_)
CDecode(s) ==
    IF s = <<>> THEN <<>>
    ELSE IF s[1] # BackSlash \/ Len(s) < 2 THEN <<Ascii(s[1])>> \o CDecode(Tail(s))
    ELSE LET c == s[2]
             after(n) == CDecode(SubSeq(s, n + 1, Len(s)))
         IN  CASE c = "0" ->
                    IF Len(s) >= 4 /\ isOctalDigit(s[3]) /\ isOctalDigit(s[4])
                    THEN <<DigitVal(s[3]) * 8 + DigitVal(s[4])>> \o after(4)
                    ELSE <<0>> \o after(2)
               [] c = "x" /\ Len(s) >= 4 -> <<HexVal(s[3]) * 16 + HexVal(s[4])>> \o after(4)
               [] c = "n" -> <<10>> \o after(2)
               [] c = "r" -> <<13>> \o after(2)
               [] c = "t" -> <<9>> \o after(2)
               [] c = BackSlash -> <<92>> \o after(2)
               [] c = Quote -> <<34>> \o after(2)
               [] OTHER -> <<Ascii(s[1])>> \o CDecode(Tail(s))

\* C35: parseProbeData succeeds on every payload built from literal
\* characters, bare quotes and the escapes \0, \0XX, \xHH, \n, \\, \", and
\* returns its C-style decoding
C35_PayloadDecoding ==
    wk.pc = "done" =>
        /\ wk.data.err = ""
        /\ wk.data.bytes = CDecode(wk.payload)

\* line n of a probe file as LoadProbes looks at it, and what it is
LineText(file, n) == TrimSpace(file[n])
IsSkippedLine(t) == t = <<>> \/ t[1] = "#"
IsProbeLine(t) == ~IsSkippedLine(t) /\ HasPrefix(t, WProbe)
IsMatchLine(t) == ~IsSkippedLine(t) /\ ~IsProbeLine(t) /\ HasPrefix(t, WMatch \o Sp)
ProbeLinesBefore(file, n) == {k \in 1..(n - 1) : IsProbeLine(LineText(file, k))}
LastOf(S) == CHOOSE k \in S : \A j \in S : j <= k

\* the Probe directive in whose scope line n stands: the last Probe line
\* before it when that one parsed, 0 when there is none or it failed
ScopeOf(file, n) ==
    LET ps == ProbeLinesBefore(file, n)
    IN  IF ps = {} THEN 0
        ELSE IF parseProbe(LineText(file, LastOf(ps))).err # "" THEN 0
        ELSE LastOf(ps)

LineKind(file, n) ==
    LET t == LineText(file, n)
    IN  IF IsSkippedLine(t) THEN "skipped"
        ELSE IF IsProbeLine(t)
        THEN IF parseProbe(t).err = "" THEN "probe" ELSE "malformed probe"
        ELSE IF IsMatchLine(t)
        THEN IF ScopeOf(file, n) = 0 THEN "match without probe"
             ELSE IF parseMatch(t).unsupported THEN "dropped match"
             ELSE IF parseMatch(t).err # "" THEN "failed match"
             ELSE "match"
        ELSE IF isKnownDirective(t) THEN "ignored directive"
        ELSE "unrecognized"

LinesOfKind(file, kinds) == {n \in DOMAIN file : LineKind(file, n) \in kinds}
ErrorKinds == {"unrecognized", "malformed probe", "match without probe", "failed match"}
LoadedProbes == wk.load.probes \o (IF wk.pc = "scan" THEN wk.load.currentProbe ELSE <<>>)
RECURSIVE SumMatches(_)
SumMatches(ps) == IF ps = <<>> THEN 0 ELSE Len(Head(ps).matches) + SumMatches(Tail(ps))

\* what LoadProbes has recorded agrees with the lines it has read
ErrorLinesExact ==
    LET f == wk.file
        st == wk.load.stats
    IN  /\ st.totalLines = Len(f)
        /\ \A i \in DOMAIN st.errorLines :
              /\ st.errorLines[i].lineNumber \in LinesOfKind(f, ErrorKinds)
              /\ \A j \in 1..(i - 1) : st.errorLines[j].lineNumber < st.errorLines[i].lineNumber
              /\ LET kind == LineKind(f, st.errorLines[i].lineNumber)
                     msg == st.errorLines[i].message
                 IN  /\ kind = "unrecognized" <=> msg = "Unknown line format"
                     /\ kind = "match without probe" <=> msg = "match found without preceding Probe"
                     /\ kind = "failed match" <=> msg = "match parse error"
        /\ Len(st.errorLines) = Cardinality(LinesOfKind(f, ErrorKinds))
        /\ st.matchCount = Cardinality(LinesOfKind(f, {"match"}))
        /\ SumMatches(LoadedProbes) = st.matchCount

\* C33 amended: LoadProbes goes on after every line it cannot use and stops
\* before the end of the file only when reading fails; error_lines hold, once
\* each and with their line numbers, exactly the unrecognized lines, the
\* malformed Probe lines, the match lines without a current probe and the
\* match lines that fail for another reason than an unsupported pattern;
\* ignored directives and dropped matches are not in error_lines, and a
\* dropped match is neither attached nor counted
C33_ErrorLines ==
    /\ ErrorLinesExact
    /\ wk.pc \in {"scan", "returned", "failed"}
    /\ wk.pc = "returned" => wk.ret.err = ""
    /\ wk.pc = "failed" => (wk.ret.err = "error reading file" /\ wk.ret.probes = <<>>)

\* C33 as claimed: LoadProbes always processes the file to its end
C33_AsClaimed ==
    /\ ErrorLinesExact
    /\ wk.pc \in {"scan", "returned"}

\* C33 witness: a file of four lines was read to its end: a probe, a match
\* that was dropped, an ignored directive and an unrecognized line
C33_Witness ==
    /\ wk.pc = "returned"
    /\ wk.file = <<LineProbeTCP, LineMatchLookahead, LineSoftmatch, LineUnknown>>
    /\ wk.load.stats.errorLines = <<[lineNumber |-> 4, message |-> "Unknown line format"]>>
    /\ wk.load.stats.matchCount = 0
    /\ wk.ret.probes[1].matches = <<>>

\* C34: every probe LoadProbes returns has protocol TCP or UDP, and the TCP
\* and UDP views of the catalogue built from them partition the full list
C34_ProtocolsPartition ==
    wk.pc = "returned" =>
        /\ \A i \in DOMAIN wk.ret.probes : wk.ret.probes[i].protocol \in {"TCP", "UDP"}
        /\ probeCache.allProbes = wk.ret.probes
        /\ Len(probeCache.tcpProbes) + Len(probeCache.udpProbes) = Len(probeCache.allProbes)

\* the flag letters of a match line: what stands between the closing
\* separator and the first space after it
FlagLetters(t) ==
    LET patternStr == SplitN(TrimPrefix(t, WMatch \o Sp), " ", 2)[2]
        flagsAndVersion == SplitN(SubSeq(patternStr, 3, Len(patternStr)), patternStr[2], 2)[2]
    IN  SplitN(flagsAndVersion, " ", 2)[1]

\* C36: the pattern of a match that was added is case-insensitive exactly
\* when its flag letters hold i, and dot-matches-newline exactly when they
\* hold s; letters inside the version tokens enable neither
C36_FlagsOnly ==
    (wk.pc = "scan" /\ wk.file # <<>> /\ LineKind(wk.file, Len(wk.file)) = "match") =>
        LET t == LineText(wk.file, Len(wk.file))
            ms == wk.load.currentProbe[1].matches
            m == ms[Len(ms)]
        IN  /\ m.pattern.caseInsensitive = Contains(FlagLetters(t), <<"i">>)
            /\ m.pattern.dotAll = Contains(FlagLetters(t), <<"s">>)

\* the matches of the lines a..b of a file that were added
RECURSIVE MatchesIn(_, _, _)
MatchesIn(file, a, b) ==
    IF a > b THEN <<>>
    ELSE (IF LineKind(file, a) = "match" THEN <<parseMatch(LineText(file, a)).match>> ELSE <<>>)
             \o MatchesIn(file, a + 1, b)

\* the lines of the Probe directives that parsed, in file order
RECURSIVE GoodProbeLines(_, _)
GoodProbeLines(file, n) ==
    IF n > Len(file) THEN <<>>
    ELSE (IF LineKind(file, n) = "probe" THEN <<n>> ELSE <<>>) \o GoodProbeLines(file, n + 1)

\* the last line of the scope of the Probe directive at line k
ScopeEnd(file, k) ==
    LET later == {n \in (k + 1)..Len(file) : IsProbeLine(LineText(file, n))}
    IN  IF later = {} THEN Len(file) ELSE (CHOOSE n \in later : \A j \in later : n <= j) - 1

\* every probe loaded holds the matches of its own scope and no other, and
\* a match line behind a failed Probe line is an error line
MatchesInScope ==
    LET f == wk.file
        good == GoodProbeLines(f, 1)
    IN  /\ Len(LoadedProbes) = Len(good)
        /\ wk.load.stats.probeCount = Len(good)
        /\ \A j \in DOMAIN good :
              /\ LoadedProbes[j].name = parseProbe(LineText(f, good[j])).probe.name
              /\ LoadedProbes[j].matches = MatchesIn(f, good[j] + 1, ScopeEnd(f, good[j]))
        /\ \A n \in DOMAIN f :
              (IsMatchLine(LineText(f, n)) /\ ScopeOf(f, n) = 0) =>
                  \E i \in DOMAIN wk.load.stats.errorLines :
                      wk.load.stats.errorLines[i] =
                          [lineNumber |-> n, message |-> "match found without preceding Probe"]
        /\ (wk.pc = "scan" /\ f # <<>> /\ LineKind(f, Len(f)) = "malformed probe") =>
              wk.load.currentProbe = <<>>

\* C39 amended: a match is attached only to the most recent Probe directive
\* that parsed; behind a Probe line that failed there is no current probe,
\* the match lines that follow are error lines and are not attached to the
\* earlier probe; and when LoadProbes returns without a read error,
\* probe_count is the number of probes returned
C39_MatchScope ==
    /\ MatchesInScope
    /\ wk.pc = "returned" => wk.load.stats.probeCount = Len(wk.ret.probes)

\* C39 as claimed: probe_count is the number of probes returned, however
\* LoadProbes returns
C39_AsClaimed ==
    /\ MatchesInScope
    /\ wk.pc \in {"returned", "failed"} => wk.load.stats.probeCount = Len(wk.ret.probes)

\* C39 witness: a probe with one match, then a Probe line that failed and a
\* match line behind it: one probe with one match is returned, lines 3 and 4
\* are error lines
C39_Witness ==
    /\ wk.pc = "returned"
    /\ wk.file = <<LineProbeTCP, LineMatchPlain, LineProbeShort, LineMatchPlain>>
    /\ Len(wk.ret.probes) = 1
    /\ Len(wk.ret.probes[1].matches) = 1
    /\ wk.load.stats.probeCount = 1
    /\ wk.load.stats.errorLines =
          <<[lineNumber |-> 3, message |-> "invalid Probe format"],
            [lineNumber |-> 4, message |-> "match found without preceding Probe"]>>

\* C38: when the peer's banner arrives in time for the one-byte read, the
\* connect worker still matches and reports the whole banner: the port is
\* Open with the service of the first Match of the first probe that matches
\* the banner, or with the banner itself
C38_NoByteLost ==
    \A b \in Banners :
        (WorkerRan("connect") /\ wk.dial.nil /\ wk.conn = BannerConn(b, TRUE)
            /\ wk.probes # <<>>) =>
            /\ wk.result.state = "Open"
            /\ wk.result.service =
                  IF FirstMatch(wk.probes[1].matches, 1, b.full).found
                  THEN FirstMatch(wk.probes[1].matches, 1, b.full).serviceName
                  ELSE b.full

\* loop l holds id: PopFromQueue handed it out and the iteration is not over
HoldersOf(id) == {l \in Loops : loops[l].pc \notin {"pop", "off"} /\ loops[l].taskID = id}
Queued(id) == \E i \in DOMAIN queue : queue[i] = id
\* PopFromQueue returns id to loop l in this step
Popped(l, id) == loops[l].pc = "pop" /\ loops'[l].pc = "get" /\ loops'[l].taskID = id

\* C37: an id is on the queue at most once and never while a loop holds it,
\* at most one loop holds it, PopFromQueue hands out an id whose task no loop
\* has touched, and an id that has left the queue never comes back
C37_PoppedOnce ==
    /\ [](\A id \in TaskIds : Count(queue, id) + Cardinality(HoldersOf(id)) <= 1)
    /\ [][\A id \in TaskIds :
            /\ \A l \in Loops :
                  Popped(l, id) =>
                      /\ Queued(id)
                      /\ ~Queued(id)'
                      /\ StatusOf(store, id) \in {"", "pending"}
            /\ (handlers[id].pc = "done" /\ ~Queued(id)) => ~Queued(id)']_vars

\* C37 witness: two loops scan two different tasks at the same time
C37_Witness ==
    \E l1, l2 \in Loops :
        /\ l1 # l2
        /\ loops[l1].pc = "scan"
        /\ loops[l2].pc = "scan"
        /\ loops[l1].taskID # loops[l2].taskID
        /\ StatusOf(store, loops[l1].taskID) = "running"
        /\ StatusOf(store, loops[l2].taskID) = "running"

\* the task of id is stored as the create handler writes it when the push failed
StoredUnqueued(st, id) ==
    /\ st[id] # <<>>
    /\ LET t == deserializeTask(st[id][1])
       IN  /\ t.status = "failed"
           /\ t.error = "failed to queue task"
           /\ t.results.items = <<>>
           /\ t.completedAt # "nil"
\* id is neither on the queue nor with a loop
OffQueue(id) == ~Queued(id) /\ \A l \in Loops : loops[l].taskID # id
\* the push of id failed, or its id was dropped by a loop before any write
Unqueued(id) ==
    /\ handlers[id].pc \in {"failupdate", "done"}
    /\ OffQueue(id)
    /\ (StatusOf(store, id) = "pending" \/ StoredUnqueued(store, id))

\* an id on the queue or with a loop has a stored task, and a task whose push
\* failed is never queued, popped or run: only the handler's write changes it
QueueFailureIsolated ==
    /\ [](\A id \in TaskIds :
            /\ (Queued(id) \/ HoldersOf(id) # {}) => Stored(id)
            /\ handlers[id].pc = "failupdate" => (Unqueued(id) /\ StatusOf(store, id) = "pending"))
    /\ [][\A id \in TaskIds :
            /\ (handlers[id].pc = "push" /\ handlers'[id].pc = "failupdate") =>
                  (queue' = queue /\ store' = store)
            /\ Unqueued(id) =>
                  /\ Unqueued(id)'
                  /\ store'[id] # store[id] =>
                        (handlers[id].pc = "failupdate" /\ StoredUnqueued(store', id))]_vars

\* C40 amended: the task is stored before its id is pushed, so an id on the
\* queue or with a loop has a stored task; when PushToQueue fails the handler
\* writes the task as failed with error "failed to queue task", no results
\* and completed_at set, or, when that UpdateTask fails too, leaves it stored
\* pending; either way the task is never dequeued or run
C40_PushFailure ==
    /\ QueueFailureIsolated
    /\ [][\A id \in TaskIds :
            (handlers[id].pc = "failupdate" /\ handlers'[id].pc = "done") =>
                (StoredUnqueued(store', id) \/ store' = store)]_vars

\* C40 as claimed: when PushToQueue fails the handler persists the task as failed
C40_AsClaimed ==
    /\ QueueFailureIsolated
    /\ [][\A id \in TaskIds :
            (handlers[id].pc = "failupdate" /\ handlers'[id].pc = "done") =>
                StoredUnqueued(store', id)]_vars

\* C40 witness: a task whose push failed is stored failed while a loop scans
\* another task, dequeued after it
C40_Witness ==
    \E id \in TaskIds, l \in Loops :
        /\ handlers[id].pc = "done"
        /\ StoredUnqueued(store, id)
        /\ OffQueue(id)
        /\ loops[l].pc = "scan"
        /\ loops[l].taskID > id

====
